---- MODULE Spec2Model ----
(***************************************************************************)
(* Model of the enrollment registry (EnrolledProgramsManager), the process *)
(* scanner (ProcessMonitor) and the polling watcher (ProcessWatcher) of    *)
(* desktop-wakatime.                                                       *)
(*                                                                         *)
(* Strings that the code takes apart (paths, process names, command lines) *)
(* are sequences of one-character strings.  Timestamps are readings of a   *)
(* bounded clock.  A null / not-found result is the empty sequence and a   *)
(* found record r is <<r>>.                                                *)
(***************************************************************************)
EXTENDS Integers, Sequences, FiniteSets, Bags, TLC

\* ------------------------------------------------------------------ bounds
MaxTime == 1          \* the clock reads 0..MaxTime
MaxFileLen == 2       \* entries in the enrollment file found at first launch
MaxFaults == 1        \* disk reads or writes that fail in one behaviour
MaxCycles == 2        \* checkEnrolledPrograms calls awaiting their scan at one time
MaxLogCycles == 1     \* the same, in the behaviours whose log is followed
MaxSubscriptions == 2 \* window-focus subscriptions held by the window library at one time
MaxListeners == 2     \* times the key listener is attached at one time
MaxCandidates == 3    \* paths handed to getRunningEnrolledPrograms in one call

\* ------------------------------------------------------------- the universe
PathA == <<"/", "b", "/", "v">>
PathB == <<"/", "b", "/", "c", ".", "x">>
Paths == {PathA, PathB}

FileIds == {1, 2}     \* ids found in the enrollment file at first launch
NotAString == 0       \* an id field that fails z.string()
NoTime == -1          \* lastSeen is absent

Times == 0..MaxTime

RECURSIVE LastSlash(_, _)
\* index of the last "/" among the first i characters of s, 0 when none
LastSlash(s, i) ==
  IF i = 0 THEN 0
  ELSE IF s[i] = "/" THEN i
  ELSE LastSlash(s, i - 1)

\* path.basename for a path without trailing separators
Basename(p) == SubSeq(p, LastSlash(p, Len(p)) + 1, Len(p))

RECURSIVE SeqFilter(_, _)
\* Array.prototype.filter with the predicate given as the set of kept values
SeqFilter(s, keep) ==
  IF s = <<>> THEN <<>>
  ELSE IF Head(s) \in keep THEN <<Head(s)>> \o SeqFilter(Tail(s), keep)
  ELSE SeqFilter(Tail(s), keep)

Range(s) == {s[i] : i \in 1..Len(s)}

\* --------------------------------------------------------------- the state
VARIABLES
  fsPaths,      \* executable paths that exist on disk
  file,         \* the enrollment file
  now,          \* the clock
  instance,     \* TRUE once EnrolledProgramsManager has been constructed
  faults,       \* number of disk failures so far
  programs,     \* EnrolledProgramsManager.programs
  ret,          \* the last registry operation and what it returned
  intervalId,   \* ProcessWatcher.intervalId, 0 for null
  timers,       \* the interval timers that are armed
  monitoringInterval,     \* ProcessWatcher.monitoringInterval
  lastReportedPrograms,   \* ProcessWatcher.lastReportedPrograms, in insertion order
  cycles,       \* the bag of checkEnrolledPrograms calls that are awaiting their scan
  lastCycle,    \* what the checkEnrolledPrograms call that finished last did
  activeWindow, \* Watcher.activeWindow, NoWindow for undefined
  activeWindowSubscription,     \* Watcher.activeWindowSubscription, 0 for null
  isWatchingForKeyboardEvents,  \* Watcher.isWatchingForKeyboardEvents
  fallbackMode, \* Watcher.fallbackMode
  subscriptions,  \* the window-focus subscriptions the window library holds
  listeners,    \* how many times globalKeyListener is attached to the key hook
  keyed,        \* the key event handled last and what its handling did
  transitions   \* the log of "entered" and "exited" lines, summed up per path

\* ret, lastCycle and keyed are outputs: they describe the step just taken, and a
\* step that returns nothing, or finishes no cycle, leaves them empty
regVars == <<fsPaths, file, now, instance, faults, programs>>
pollVars == <<intervalId, timers, monitoringInterval, lastReportedPrograms, cycles>>
winVars == <<activeWindow, activeWindowSubscription, isWatchingForKeyboardEvents,
             fallbackMode, subscriptions, listeners>>
vars == <<fsPaths, file, now, instance, faults, programs, ret,
          intervalId, timers, monitoringInterval, lastReportedPrograms,
          cycles, lastCycle, activeWindow, activeWindowSubscription,
          isWatchingForKeyboardEvents, fallbackMode, subscriptions, listeners,
          keyed, transitions>>

\* an EnrolledProgram record
Program(id, p, at, seen) ==
  [id |-> id, name |-> Basename(p), path |-> p, enrolledAt |-> at, lastSeen |-> seen]

\* entries an enrollment file may hold: well-formed ones and ones that fail
\* the schema (id is not a string)
FileEntries ==
  {Program(i, p, 0, NoTime) : i \in FileIds \cup {NotAString}, p \in Paths}

RECURSIVE SeqsUpTo(_, _)
SeqsUpTo(S, n) ==
  IF n = 0 THEN {<<>>}
  ELSE LET shorter == SeqsUpTo(S, n - 1)
       IN shorter \cup {Append(s, x) : s \in {t \in shorter : Len(t) = n - 1}, x \in S}

AbsentFile == [kind |-> "absent", programs |-> <<>>]
GarbageFile == [kind |-> "garbage", programs |-> <<>>]   \* not JSON at all
JsonFile(progs) == [kind |-> "json", programs |-> progs]

\* enrolledProgramsSchema.parse succeeds
SchemaOk(f) ==
  /\ f.kind = "json"
  /\ \A i \in 1..Len(f.programs) : f.programs[i].id # NotAString

\* ret.removed counts the "Removing enrolled program" lines a load logged
NoRet == [op |-> "none", result |-> <<>>, saved |-> "none", removed |-> 0]

WriteOutcomes == {"ok", "unchanged", "truncated"}

\* the outcomes the disk may still produce after n failures
WritesAfter(n) == IF n < MaxFaults THEN WriteOutcomes ELSE {"ok"}
ReadsAfter(n) == IF n < MaxFaults THEN BOOLEAN ELSE {TRUE}
Failed(saved) == IF saved \in {"ok", "none"} THEN 0 ELSE 1

\* savePrograms: writeFileSync replaces the whole file; a failure is caught
\* and logged, and leaves the file as it was or truncated
SavePrograms(progs, f, w) ==
  IF w = "ok" THEN JsonFile(progs)
  ELSE IF w = "truncated" THEN GarbageFile
  ELSE f

IsProgramEnrolled(progs, p) == \E i \in 1..Len(progs) : progs[i].path = p

GetAllPrograms(progs) == progs

GetEnrolledPaths(progs) == [i \in 1..Len(progs) |-> progs[i].path]

\* Array.prototype.splice(index, 1)
Splice(s, index) == SubSeq(s, 1, index - 1) \o SubSeq(s, index + 1, Len(s))

RECURSIVE FindIndex(_, _, _)
\* first index i0 >= i with progs[i0].id = id, 0 when none
FindIndex(progs, id, i) ==
  IF i > Len(progs) THEN 0
  ELSE IF progs[i].id = id THEN i
  ELSE FindIndex(progs, id, i + 1)

RECURSIVE FindPathIndex(_, _, _)
FindPathIndex(progs, p, i) ==
  IF i > Len(progs) THEN 0
  ELSE IF progs[i].path = p THEN i
  ELSE FindPathIndex(progs, p, i + 1)

GetProgramById(progs, id) ==
  LET i == FindIndex(progs, id, 1) IN IF i = 0 THEN <<>> ELSE <<progs[i]>>

GetProgramByPath(progs, p) ==
  LET i == FindPathIndex(progs, p, 1) IN IF i = 0 THEN <<>> ELSE <<progs[i]>>

IdsOf(progs) == {progs[i].id : i \in 1..Len(progs)}

RECURSIVE LeastUnused(_, _)
\* the least id from n on that is not in used
LeastUnused(used, n) == IF n \in used THEN LeastUnused(used, n + 1) ELSE n

\* generateId: a time-based prefix and a random suffix, which meets no id in
\* use; ids are opaque, so the model takes the least id that no record in
\* memory or in the file has
GenerateId(progs, f) == LeastUnused(IdsOf(progs) \cup IdsOf(f.programs), 1)

\* ExistingOnly with the existence test left out
ExistingOnlyNoFilter(progs, fs) == progs

\* the filter of loadPrograms: entries whose path exists on disk
ExistingOnly(progs, fs) ==
  SeqFilter(progs, {r \in Range(progs) : r.path \in fs})

\* LoadPrograms that, when the schema rejects the file, keeps the entries
\* that are well-formed
LoadProgramsKeepPartial(mem, f, fs, readOk, mkdirOk, w) ==
  IF f.kind = "absent" THEN
    IF mkdirOk
    THEN [programs |-> mem, file |-> SavePrograms(mem, f, w),
          result |-> "created", saved |-> w]
    ELSE [programs |-> <<>>, file |-> f, result |-> "failed", saved |-> "none"]
  ELSE IF readOk /\ SchemaOk(f) THEN
    LET kept == SeqFilter(f.programs, {r \in Range(f.programs) : r.path \in fs})
    IN [programs |-> kept, file |-> SavePrograms(kept, f, w),
        result |-> "loaded", saved |-> w]
  ELSE [programs |-> SeqFilter(f.programs, {r \in Range(f.programs) : r.id # NotAString}),
        file |-> f, result |-> "failed", saved |-> "none"]

\* loadPrograms, from memory mem: the new list, the new file and the outcome
LoadPrograms(mem, f, fs, readOk, mkdirOk, w) ==
  IF f.kind = "absent" THEN
    IF mkdirOk
    THEN [programs |-> mem, file |-> SavePrograms(mem, f, w),
          result |-> "created", saved |-> w]
    ELSE [programs |-> <<>>, file |-> f, result |-> "failed", saved |-> "none"]
  ELSE IF readOk /\ SchemaOk(f) THEN
    LET kept == ExistingOnly(f.programs, fs)
    IN [programs |-> kept, file |-> SavePrograms(kept, f, w),
        result |-> "loaded", saved |-> w]
  ELSE [programs |-> <<>>, file |-> f, result |-> "failed", saved |-> "none"]

\* EnrollProgram without the already-enrolled check
EnrollProgramNoDupCheck(progs, f, fs, p, id, t, w) ==
  IF p \notin fs THEN [programs |-> progs, file |-> f, result |-> <<>>, saved |-> "none"]
  ELSE LET newProgram == [id |-> id, name |-> Basename(p), path |-> p,
                          enrolledAt |-> t, lastSeen |-> NoTime]
           pushed == Append(progs, newProgram)
       IN [programs |-> pushed, file |-> SavePrograms(pushed, f, w),
           result |-> <<newProgram>>, saved |-> w]

\* EnrollProgram that puts the new record first instead of last
EnrollProgramUnshift(progs, f, fs, p, id, t, w) ==
  IF p \notin fs THEN [programs |-> progs, file |-> f, result |-> <<>>, saved |-> "none"]
  ELSE IF \E i \in 1..Len(progs) : progs[i].path = p
  THEN [programs |-> progs, file |-> f, result |-> <<>>, saved |-> "none"]
  ELSE LET newProgram == [id |-> id, name |-> Basename(p), path |-> p,
                          enrolledAt |-> t, lastSeen |-> NoTime]
           pushed == <<newProgram>> \o progs
       IN [programs |-> pushed, file |-> SavePrograms(pushed, f, w),
           result |-> <<newProgram>>, saved |-> w]

\* enrollProgram
EnrollProgram(progs, f, fs, p, id, t, w) ==
  IF p \notin fs THEN [programs |-> progs, file |-> f, result |-> <<>>, saved |-> "none"]
  ELSE IF IsProgramEnrolled(progs, p)
  THEN [programs |-> progs, file |-> f, result |-> <<>>, saved |-> "none"]
  ELSE LET newProgram == Program(id, p, t, NoTime)
           pushed == Append(progs, newProgram)
       IN [programs |-> pushed, file |-> SavePrograms(pushed, f, w),
           result |-> <<newProgram>>, saved |-> w]

\* RemoveProgram without the not-found return: splice(-1, 1) drops the last
\* record
RemoveProgramNoGuard(progs, f, id, w) ==
  LET found == FindIndex(progs, id, 1)
      index == IF found = 0 THEN Len(progs) ELSE found
  IN IF progs = <<>>
     THEN [programs |-> progs, file |-> f, result |-> FALSE, saved |-> "none"]
     ELSE [programs |-> Splice(progs, index),
           file |-> SavePrograms(Splice(progs, index), f, w),
           result |-> found # 0, saved |-> w]

\* removeProgram
RemoveProgram(progs, f, id, w) ==
  LET index == FindIndex(progs, id, 1)
  IN IF index = 0
     THEN [programs |-> progs, file |-> f, result |-> FALSE, saved |-> "none"]
     ELSE [programs |-> Splice(progs, index),
           file |-> SavePrograms(Splice(progs, index), f, w),
           result |-> TRUE, saved |-> w]

\* UpdateLastSeen that saves before it stamps
UpdateLastSeenSaveFirst(progs, f, p, t, w) ==
  LET i == FindPathIndex(progs, p, 1)
  IN IF i = 0
     THEN [programs |-> progs, file |-> f, saved |-> "none"]
     ELSE [programs |-> [progs EXCEPT ![i].lastSeen = t],
           file |-> SavePrograms(progs, f, w), saved |-> w]

\* updateLastSeen that stamps every record of the list
UpdateLastSeenEveryRecord(progs, f, p, t, w) ==
  IF FindPathIndex(progs, p, 1) = 0
  THEN [programs |-> progs, file |-> f, saved |-> "none"]
  ELSE LET stamped == [j \in 1..Len(progs) |-> [progs[j] EXCEPT !.lastSeen = t]]
       IN [programs |-> stamped, file |-> SavePrograms(stamped, f, w), saved |-> w]

\* updateLastSeen
UpdateLastSeen(progs, f, p, t, w) ==
  LET i == FindPathIndex(progs, p, 1)
  IN IF i = 0
     THEN [programs |-> progs, file |-> f, saved |-> "none"]
     ELSE LET stamped == [progs EXCEPT ![i].lastSeen = t]
          IN [programs |-> stamped, file |-> SavePrograms(stamped, f, w), saved |-> w]

\* ------------------------------------------------------- the process scanner
\* String.prototype.includes
Includes(hay, needle) ==
  \E k \in 0..(Len(hay) - Len(needle)) : SubSeq(hay, k + 1, k + Len(needle)) = needle

RECURSIVE LastDot(_, _)
\* index of the last "." among the first i characters of s, 0 when none
LastDot(s, i) ==
  IF i = 0 THEN 0
  ELSE IF s[i] = "." THEN i
  ELSE LastDot(s, i - 1)

\* a replace that strips nothing
StripExtNothing(s) == s

\* s.replace(/\.[^/.]+$/, ''): drop a trailing extension
StripExt(s) ==
  LET d == LastDot(s, Len(s))
  IN IF d > 0 /\ d < Len(s) /\ \A k \in (d + 1)..Len(s) : s[k] # "/"
     THEN SubSeq(s, 1, d - 1)
     ELSE s

Proc(name, command) == [name |-> name, command |-> command]

\* the processes the operating system may be running
ProcV == Proc(<<"v">>, <<"/", "b", "/", "v">>)
ProcC == Proc(<<"c">>, <<"c">>)
ProcUniverse == {ProcV, ProcC}

\* getRunningProcesses: what one listing of the processes may return; each
\* call lists them anew, and a listing that fails returns none
Listings == SUBSET ProcUniverse

\* the processes and the executable paths isProcessRunning is tried on: names
\* with and without an extension, a name in another case, a command line
\* that holds a longer path, a path without directory and a path whose
\* directory has a dot
ScanProcs ==
  ProcUniverse
    \cup {Proc(<<"c", ".", "y">>, <<"c", ".", "y">>),
          Proc(<<"V">>, <<"/", "b", "/", "V">>),
          Proc(<<"s">>, <<"s", " ", "/", "b", "/", "v", ".", "z">>)}
ScanPaths ==
  Paths \cup {<<"v">>, <<"/", "b", "/", "v", ".", "z">>, <<"/", "v", ".", "d", "/", "c">>}

\* isProcessRunning over the snapshot ps
IsProcessRunning(ps, executablePath) ==
  LET executableName == Basename(executablePath)
  IN \E proc \in ps :
       \/ proc.name = executableName
       \/ Includes(proc.command, executablePath)
       \/ StripExt(proc.name) = StripExt(executableName)

\* process.platform, one value standing for every platform without a branch
Platforms == {"linux", "darwin", "win32", "freebsd"}
SupportedPlatforms == {"linux", "darwin", "win32"}

\* what a call returns to its caller: it throws, or it returns processes
Thrown == [raised |-> TRUE, processes |-> {}]
Returned(ps) == [raised |-> FALSE, processes |-> ps]

\* what the listing command does: it fails, or it prints lines that parse
\* to the processes procs
Execs == {[ok |-> FALSE, procs |-> {}]} \cup {[ok |-> TRUE, procs |-> ps] : ps \in Listings}

\* getLinuxProcesses, getMacProcesses, getWindowsProcesses: each catches the
\* failure of its command and returns []
GetPlatformProcesses(exec) == IF exec.ok THEN Returned(exec.procs) ELSE Returned({})

\* getRunningProcesses without its catch
GetRunningProcessesNoCatch(platform, exec) ==
  IF platform \in SupportedPlatforms THEN GetPlatformProcesses(exec) ELSE Thrown

\* ProcessMonitor.getRunningProcesses
GetRunningProcesses(platform, exec) ==
  LET tried == IF platform \in SupportedPlatforms
               THEN GetPlatformProcesses(exec)
               ELSE Thrown
  IN IF tried.raised THEN Returned({}) ELSE tried

\* getRunningEnrolledPrograms keeping a path that any of the listings shows
GetRunningEnrolledProgramsAnyScan(enrolledPaths, scans) ==
  SeqFilter(enrolledPaths,
            {p \in Range(enrolledPaths) :
               \E i \in 1..Len(scans) : IsProcessRunning(scans[i], p)})

RECURSIVE GetRunningEnrolledPrograms(_, _)
\* ProcessMonitor.getRunningEnrolledPrograms: scans[i] is the listing the
\* isProcessRunning call for enrolledPaths[i] gets
GetRunningEnrolledPrograms(enrolledPaths, scans) ==
  IF enrolledPaths = <<>> THEN <<>>
  ELSE (IF IsProcessRunning(Head(scans), Head(enrolledPaths))
        THEN <<Head(enrolledPaths)>> ELSE <<>>)
       \o GetRunningEnrolledPrograms(Tail(enrolledPaths), Tail(scans))

\* ------------------------------------------------------- the polling watcher
DefaultInterval == 60000
Intervals == {DefaultInterval, 1000}

RECURSIVE Dedup(_)
\* new Set(array), in insertion order
Dedup(s) ==
  IF s = <<>> THEN <<>>
  ELSE LET front == Dedup(SubSeq(s, 1, Len(s) - 1))
       IN IF s[Len(s)] \in Range(front) THEN front ELSE Append(front, s[Len(s)])

\* the tracking set that adds the running paths to those it holds
MergeReported(last, running) == Dedup(last \o running)

\* this.lastReportedPrograms = currentRunningSet
ReplaceReported(last, running) == Dedup(running)

Event(kind, p) == [kind |-> kind, path |-> p]

\* no checkEnrolledPrograms call finished in the step
NoCycle == [kind |-> "none", paths |-> <<>>, running |-> <<>>, before |-> <<>>,
            events |-> <<>>]

\* a checkEnrolledPrograms call found no enrolled path and returned
SkippedCycle == [NoCycle EXCEPT !.kind = "skipped"]

\* what a step that calls checkEnrolledPrograms leaves in lastCycle: the
\* call returns at once when no path is enrolled and awaits its scan
\* otherwise
CheckReturned(progs) ==
  IF Len(GetEnrolledPaths(progs)) = 0 THEN SkippedCycle ELSE NoCycle

\* EnteredEvents that reports every running path, reported before or not
EnteredEventsNoLastCheck(running, last, progs) ==
  [i \in 1..Len(running) |-> [kind |-> "entered", path |-> running[i]]]

RECURSIVE EnteredEvents(_, _, _)
\* the "Detected enrolled program running" lines of one cycle
EnteredEvents(running, last, progs) ==
  IF running = <<>> THEN <<>>
  ELSE (IF running[1] \notin Range(last) /\ GetProgramByPath(progs, running[1]) # <<>>
        THEN <<Event("entered", running[1])>> ELSE <<>>)
       \o EnteredEvents(Tail(running), last, progs)

\* ExitedEvents without the registry lookup
ExitedEventsNoLookup(last, running, progs) ==
  SeqFilter([i \in 1..Len(last) |-> [kind |-> "exited", path |-> last[i]]],
            {[kind |-> "exited", path |-> p] : p \in Range(last) \ Range(running)})

RECURSIVE ExitedEvents(_, _, _)
\* the "Enrolled program stopped" lines of one cycle
ExitedEvents(last, running, progs) ==
  IF last = <<>> THEN <<>>
  ELSE (IF last[1] \notin Range(running) /\ GetProgramByPath(progs, last[1]) # <<>>
        THEN <<Event("exited", last[1])>> ELSE <<>>)
       \o ExitedEvents(Tail(last), running, progs)

\* a heartbeat whose project is the path
ProgramHeartbeatProjectPath(program, programPath) ==
  [appData |-> [id |-> program.id, name |-> program.name, path |-> programPath],
   windowInfo |-> [title |-> program.name, name |-> program.name,
                   path |-> programPath, processId |-> 0],
   project |-> programPath,
   entity |-> programPath,
   entityType |-> "app",
   category |-> "coding",
   isWrite |-> FALSE]

\* the object sendProgramHeartbeat hands to wakatime.sendHeartbeat, without
\* its language guess and the constant fields of appData and windowInfo
ProgramHeartbeat(program, programPath) ==
  [appData |-> [id |-> program.id, name |-> program.name, path |-> programPath],
   windowInfo |-> [title |-> program.name, name |-> program.name,
                   path |-> programPath, processId |-> 0],
   project |-> program.name,
   entity |-> programPath,
   entityType |-> "app",
   category |-> "coding",
   isWrite |-> FALSE]

\* a heartbeat among the events of a cycle
HeartbeatEvent(program, p) ==
  [kind |-> "heartbeat", path |-> p, data |-> ProgramHeartbeat(program, p)]

\* SendProgramHeartbeat without the registry lookup
SendProgramHeartbeatNoLookup(progs, p, sent) ==
  <<HeartbeatEvent([id |-> 0, name |-> Basename(p)], p)>>

\* SendProgramHeartbeat that hands the heartbeat over again after a throw
SendProgramHeartbeatRetry(progs, p, sent) ==
  LET program == GetProgramByPath(progs, p)
  IN IF program = <<>> THEN <<>>
     ELSE IF sent THEN <<HeartbeatEvent(program[1], p)>>
     ELSE <<Event("heartbeat failed", p), HeartbeatEvent(program[1], p)>>

\* sendProgramHeartbeat: the heartbeats handed to wakatime.sendHeartbeat;
\* sent is FALSE when wakatime.sendHeartbeat throws, which the catch logs as
\* "Error sending heartbeat for ..."
SendProgramHeartbeat(progs, p, sent) ==
  LET program == GetProgramByPath(progs, p)
  IN IF program = <<>> THEN <<>>
     ELSE IF sent THEN <<HeartbeatEvent(program[1], p)>>
     ELSE <<Event("heartbeat failed", p)>>

\* the ways wakatime.sendHeartbeat can end for each of n running paths when
\* k failures have been spent
SentOutcomes(n, k) ==
  {sent \in [1..n -> BOOLEAN] :
     Cardinality({j \in 1..n : ~sent[j]}) <= MaxFaults - k}

\* the log is not followed
NotRecorded == [recorded |-> FALSE, open |-> {}]

\* how many checkEnrolledPrograms calls may await their scan at one time
CycleBound == IF transitions.recorded THEN MaxLogCycles ELSE MaxCycles

RECURSIVE LogTransitions(_, _)
\* the paths whose last "Detected enrolled program running" line has no
\* later "Enrolled program stopped" line, after the lines of one more cycle
LogTransitions(open, events) ==
  IF events = <<>> THEN open
  ELSE IF events[1].kind = "entered"
       THEN LogTransitions(open \cup {events[1].path}, Tail(events))
  ELSE IF events[1].kind = "exited"
       THEN LogTransitions(open \ {events[1].path}, Tail(events))
  ELSE LogTransitions(open, Tail(events))

RECURSIVE HeartbeatLoop(_, _, _, _, _, _)
\* the loop that sends a heartbeat and updates lastSeen for each running
\* path: the registry and the events it leaves behind
HeartbeatLoop(running, progs, f, t, w, sent) ==
  IF running = <<>> THEN [programs |-> progs, file |-> f, events |-> <<>>]
  ELSE LET hb == SendProgramHeartbeat(progs, running[1], sent[1])
           u == UpdateLastSeen(progs, f, running[1], t, w)
           rest == HeartbeatLoop(Tail(running), u.programs, u.file, t, w, Tail(sent))
       IN [rest EXCEPT !.events = hb \o <<Event("touch", running[1])>> \o @]

\* BeginCheck without the return on an empty path list
BeginCheckNoSkip(cs, progs) ==
  cs (+) SetToBag({[paths |-> GetEnrolledPaths(progs), i |-> 1, running |-> <<>>]})

\* the part of checkEnrolledPrograms up to its await: the calls in flight
BeginCheck(cs, progs) ==
  LET enrolledPaths == GetEnrolledPaths(progs)
  IN IF Len(enrolledPaths) = 0 THEN cs
     ELSE cs (+) SetToBag({[paths |-> enrolledPaths, i |-> 1, running |-> <<>>]})

\* a clearInterval that clears nothing
ClearIntervalNothing(ts, id) == ts

\* clearInterval
ClearInterval(ts, id) == {t \in ts : t.id # id}

\* setInterval: the handle is one that no armed timer has
NewTimerId(ts) == CHOOSE n \in 1..(Cardinality(ts) + 1) : \A t \in ts : t.id # n

\* ---------------------------------------- the window and keyboard watcher
\* WindowInfo, as far as the watcher reads it: info.processId (0 when it is
\* missing), info.path (empty when it is missing) and the title
Window(processId, p, title) == [processId |-> processId, path |-> p, title |-> title]

NoWindow == Window(0, <<>>, "")
\* the outcome of activeWindow() when it throws
QueryFailed == Window(-1, <<>>, "")

\* the windows the desktop shows: two of one program's process, one of the
\* other program, one whose process id is not known and one whose executable
\* path is not known
Windows ==
  {Window(1, PathA, "t1"), Window(1, PathA, "t2"), Window(2, PathB, "t1"),
   Window(0, PathA, "t1"), Window(3, <<>>, "t1")}

NoKey == [state |-> "none", live |-> NoWindow, heartbeats |-> <<>>, logs |-> 0]

\* isMonitored answering yes for every path
IsMonitoredAlways(progs, p) == TRUE

\* MonitoringManager.isMonitored
IsMonitored(progs, p) == IsProgramEnrolled(progs, p)

\* a lookup that resolves every path, enrolled or not
GetAppAnyPath(progs, p) == <<Program(1, p, 0, NoTime)>>

\* AppsManager.getApp: the enrolled-program lookup for the window's path
GetApp(progs, p) == GetProgramByPath(progs, p)

\* MonitoredApp.heartbeatData: nothing when the app is not resolved, and
\* otherwise what the window classification makes of it, which may be nothing
HeartbeatData(window, app, classified) ==
  IF app = <<>> \/ ~classified THEN <<>> ELSE <<[entity |-> window.path]>>

\* the window globalKeyListener works on: activeWindow(), the live one
ActiveWindowQuery(live, cached) == live

\* globalKeyListener logging every failed window query
GlobalKeyListenerLogsEach(fallback, cached, state, live, progs, classified) ==
  [fallbackMode |-> fallback \/ (state = "DOWN" /\ live = QueryFailed),
   heartbeats |-> <<>>,
   logs |-> IF state = "DOWN" /\ live = QueryFailed THEN 1 ELSE 0]

\* Watcher.globalKeyListener, called once: the heartbeats handed to
\* wakatime.sendHeartbeat, the warnings logged and fallbackMode afterwards
GlobalKeyListener(fallback, cached, state, live, progs, classified) ==
  IF state # "DOWN"
  THEN [fallbackMode |-> fallback, heartbeats |-> <<>>, logs |-> 0]
  ELSE IF live = QueryFailed
  THEN [fallbackMode |-> TRUE, heartbeats |-> <<>>, logs |-> IF fallback THEN 0 ELSE 1]
  ELSE LET window == ActiveWindowQuery(live, cached)
           app == GetApp(progs, window.path)
           heartbeatData == HeartbeatData(window, app, classified)
       IN [fallbackMode |-> fallback,
           heartbeats |-> IF heartbeatData = <<>> THEN <<>>
                          ELSE <<[appData |-> app[1], windowInfo |-> window,
                                  entity |-> heartbeatData[1].entity,
                                  entityType |-> "app", isWrite |-> FALSE]>>,
           logs |-> 0]

RECURSIVE EmitKey(_, _, _, _, _, _, _)
\* the key hook calls every attachment of the listener in turn, all of them
\* finding the same window focused
EmitKey(n, fallback, cached, state, live, progs, classified) ==
  IF n = 0 THEN [fallbackMode |-> fallback, heartbeats |-> <<>>, logs |-> 0]
  ELSE LET first == GlobalKeyListener(fallback, cached, state, live, progs, classified)
           rest == EmitKey(n - 1, first.fallbackMode, cached, state, live, progs, classified)
       IN [fallbackMode |-> rest.fallbackMode,
           heartbeats |-> first.heartbeats \o rest.heartbeats,
           logs |-> first.logs + rest.logs]

\* GlobalKeyboardListener.addListener pushes the listener; removeListener
\* takes one occurrence of it out, if there is one
AddListener(n) == n + 1
RemoveListener(n) == IF n > 0 THEN n - 1 ELSE 0

\* the window watcher before its start()
WinInit ==
  /\ activeWindow = NoWindow
  /\ activeWindowSubscription = 0
  /\ isWatchingForKeyboardEvents = FALSE
  /\ fallbackMode = FALSE
  /\ subscriptions = {}
  /\ listeners = 0
  /\ keyed = NoKey

\* a step of the registry or of the polling watcher: the window watcher
\* is not involved
WinIdle ==
  /\ UNCHANGED winVars
  /\ keyed' = NoKey

\* ------------------------------------------------------------------- Init
\* the enrollment files the watcher's behaviours start from: empty, one
\* program, two programs, and one path enrolled twice
PollFiles ==
  {JsonFile(<<>>),
   JsonFile(<<Program(1, PathA, 0, NoTime)>>),
   JsonFile(<<Program(1, PathA, 0, NoTime), Program(2, PathB, 0, NoTime)>>),
   JsonFile(<<Program(1, PathA, 0, NoTime), Program(2, PathA, 0, NoTime)>>)}

\* the enrollment files the registry's behaviours start from: those, no
\* file, a file that is not JSON, one id used twice, and an id that is not a
\* string
StartFiles ==
  PollFiles
    \cup {AbsentFile, GarbageFile,
          JsonFile(<<Program(1, PathA, 0, NoTime), Program(1, PathB, 0, NoTime)>>),
          JsonFile(<<Program(1, PathA, 0, NoTime), Program(NotAString, PathB, 0, NoTime)>>)}

\* before the first launch
Init ==
  /\ fsPaths \in SUBSET Paths
  /\ file \in StartFiles
  /\ now = 0
  /\ instance = FALSE
  /\ faults = 0
  /\ programs = <<>>
  /\ ret = NoRet
  /\ intervalId = 0
  /\ timers = {}
  /\ monitoringInterval = DefaultInterval
  /\ lastReportedPrograms = <<>>
  /\ cycles = EmptyBag
  /\ lastCycle = NoCycle
  /\ transitions = NotRecorded
  /\ WinInit

\* ---------------------------------------------------------------- actions
\* EnrolledProgramsManager.getInstance() for the first time: the constructor
\* runs loadPrograms
Construct ==
  /\ WinIdle
  /\ ~instance
  /\ \E readOk \in ReadsAfter(faults), mkdirOk \in ReadsAfter(faults), w \in WritesAfter(faults) :
       LET r == LoadPrograms(programs, file, fsPaths, readOk, mkdirOk, w)
       IN /\ programs' = r.programs
          /\ file' = r.file
          /\ faults' = IF r.result = "failed" /\ ~(readOk /\ mkdirOk) THEN faults + 1
                        ELSE faults + Failed(r.saved)
          /\ ret' = [NoRet EXCEPT !.op = "load", !.result = <<r.result>>, !.saved = r.saved,
                                  !.removed = IF r.result = "loaded"
                                              THEN Len(file.programs) - Len(r.programs)
                                              ELSE 0]
  /\ instance' = TRUE
  /\ UNCHANGED <<fsPaths, now>>
  /\ UNCHANGED pollVars
  /\ lastCycle' = NoCycle
  /\ UNCHANGED transitions

\* enrollProgram, called on the registry
Enroll(p) ==
  /\ WinIdle
  /\ instance
  /\ \E w \in WritesAfter(faults) :
       LET r == EnrollProgram(programs, file, fsPaths, p, GenerateId(programs, file), now, w)
       IN /\ programs' = r.programs
          /\ file' = r.file
          /\ ret' = [NoRet EXCEPT !.op = "enroll", !.result = r.result, !.saved = r.saved]
          /\ faults' = faults + Failed(r.saved)
  /\ UNCHANGED <<fsPaths, now, instance>>
  /\ UNCHANGED pollVars
  /\ lastCycle' = NoCycle
  /\ UNCHANGED transitions

\* removeProgram, called on the registry
Remove(id) ==
  /\ WinIdle
  /\ instance
  /\ \E w \in WritesAfter(faults) :
       LET r == RemoveProgram(programs, file, id, w)
       IN /\ programs' = r.programs
          /\ file' = r.file
          /\ ret' = [NoRet EXCEPT !.op = "remove", !.result = <<r.result>>,
                                  !.saved = r.saved]
          /\ faults' = faults + Failed(r.saved)
  /\ UNCHANGED <<fsPaths, now, instance>>
  /\ UNCHANGED pollVars
  /\ lastCycle' = NoCycle
  /\ UNCHANGED transitions

\* ipcMain.on(enrollProgram): the renderer asks for an enrollment while the
\* watcher runs; the result goes back to the renderer
IpcEnrollProgram(p) ==
  /\ WinIdle
  /\ instance
  /\ \E w \in WritesAfter(faults) :
       LET r == EnrollProgram(programs, file, fsPaths, p, GenerateId(programs, file), now, w)
       IN /\ programs' = r.programs
          /\ file' = r.file
          /\ faults' = faults + Failed(r.saved)
  /\ ret' = NoRet
  /\ UNCHANGED <<fsPaths, now, instance>>
  /\ UNCHANGED pollVars
  /\ lastCycle' = NoCycle
  /\ UNCHANGED transitions

\* ipcMain.on(removeEnrolledProgram)
IpcRemoveEnrolledProgram(id) ==
  /\ WinIdle
  /\ instance
  /\ \E w \in WritesAfter(faults) :
       LET r == RemoveProgram(programs, file, id, w)
       IN /\ programs' = r.programs
          /\ file' = r.file
          /\ faults' = faults + Failed(r.saved)
  /\ ret' = NoRet
  /\ UNCHANGED <<fsPaths, now, instance>>
  /\ UNCHANGED pollVars
  /\ lastCycle' = NoCycle
  /\ UNCHANGED transitions

\* updateLastSeen, called on the registry
TouchLastSeen(p) ==
  /\ WinIdle
  /\ instance
  /\ \E w \in WritesAfter(faults) :
       LET r == UpdateLastSeen(programs, file, p, now, w)
       IN /\ programs' = r.programs
          /\ file' = r.file
          /\ ret' = [NoRet EXCEPT !.op = "touch", !.result = <<p>>, !.saved = r.saved]
          /\ faults' = faults + Failed(r.saved)
  /\ UNCHANGED <<fsPaths, now, instance>>
  /\ UNCHANGED pollVars
  /\ lastCycle' = NoCycle
  /\ UNCHANGED transitions

\* the clock advances
Tick ==
  /\ WinIdle
  /\ now < MaxTime
  /\ now' = now + 1
  /\ UNCHANGED <<fsPaths, file, instance, faults, programs>>
  /\ ret' = NoRet
  /\ UNCHANGED pollVars
  /\ lastCycle' = NoCycle
  /\ UNCHANGED transitions

\* an executable is deleted from, or installed on, the disk
FsChange(p) ==
  /\ WinIdle
  /\ fsPaths' = IF p \in fsPaths THEN fsPaths \ {p} ELSE fsPaths \cup {p}
  /\ UNCHANGED <<file, now, instance, faults, programs>>
  /\ ret' = NoRet
  /\ UNCHANGED pollVars
  /\ lastCycle' = NoCycle
  /\ UNCHANGED transitions

\* the application exits: the in-memory state is gone, the file stays
Quit ==
  /\ instance
  /\ instance' = FALSE
  /\ programs' = <<>>
  /\ ret' = NoRet
  /\ intervalId' = 0
  /\ timers' = {}
  /\ monitoringInterval' = DefaultInterval
  /\ lastReportedPrograms' = <<>>
  /\ cycles' = EmptyBag
  /\ lastCycle' = NoCycle
  /\ UNCHANGED transitions
  /\ activeWindow' = NoWindow
  /\ activeWindowSubscription' = 0
  /\ isWatchingForKeyboardEvents' = FALSE
  /\ fallbackMode' = FALSE
  /\ subscriptions' = {}
  /\ listeners' = 0
  /\ keyed' = NoKey
  /\ UNCHANGED <<fsPaths, file, now, faults>>

\* StopTimers that forgets the timer without clearing it
StopTimersNoClear(ts, id) == ts

\* stop(), as far as the timers go
StopTimers(ts, id) == IF id # 0 THEN ClearInterval(ts, id) ELSE ts

\* Start that arms the timer and leaves the first cycle to the first tick
StartTimerOnly ==
  /\ WinIdle
  /\ instance
  /\ LET cleared == StopTimers(timers, intervalId)
         id == NewTimerId(cleared)
     IN /\ timers' = cleared \cup {[id |-> id, period |-> monitoringInterval]}
        /\ intervalId' = id
  /\ UNCHANGED <<monitoringInterval, lastReportedPrograms, cycles>>
  /\ lastCycle' = NoCycle
  /\ UNCHANGED transitions
  /\ UNCHANGED regVars
  /\ ret' = [NoRet EXCEPT !.op = "start",
                          !.result = IF intervalId # 0 THEN <<"stopped">> ELSE <<>>]

\* ProcessWatcher.start
Start ==
  /\ WinIdle
  /\ instance
  /\ BagCardinality(BeginCheck(cycles, programs)) <= CycleBound
  /\ LET cleared == StopTimers(timers, intervalId)
         id == NewTimerId(cleared)
     IN /\ timers' = cleared \cup {[id |-> id, period |-> monitoringInterval]}
        /\ intervalId' = id
  /\ cycles' = BeginCheck(cycles, programs)
  /\ UNCHANGED <<monitoringInterval, lastReportedPrograms>>
  /\ lastCycle' = CheckReturned(programs)
  /\ UNCHANGED transitions
  /\ UNCHANGED regVars
  /\ ret' = [NoRet EXCEPT !.op = "start",
                          !.result = IF intervalId # 0 THEN <<"stopped">> ELSE <<>>]

\* ProcessWatcher.stop
Stop ==
  /\ WinIdle
  /\ instance
  /\ timers' = StopTimers(timers, intervalId)
  /\ intervalId' = 0
  /\ UNCHANGED <<monitoringInterval, lastReportedPrograms, cycles>>
  /\ lastCycle' = NoCycle
  /\ UNCHANGED transitions
  /\ UNCHANGED regVars
  /\ ret' = [NoRet EXCEPT !.op = "stop",
                          !.result = IF intervalId # 0 THEN <<"stopped">> ELSE <<>>]

\* SetMonitoringInterval that records the interval and leaves the armed
\* timer alone
SetMonitoringIntervalNoRestart(intervalMs) ==
  /\ WinIdle
  /\ instance
  /\ monitoringInterval' = intervalMs
  /\ UNCHANGED <<timers, intervalId, cycles, lastReportedPrograms>>
  /\ lastCycle' = NoCycle
  /\ UNCHANGED transitions
  /\ UNCHANGED regVars
  /\ ret' = [NoRet EXCEPT !.op = "setMonitoringInterval",
                          !.result = IF intervalId # 0 THEN <<"stopped">> ELSE <<>>]

\* ProcessWatcher.setMonitoringInterval
SetMonitoringInterval(intervalMs) ==
  /\ WinIdle
  /\ instance
  /\ monitoringInterval' = intervalMs
  /\ IF intervalId # 0
     THEN /\ BagCardinality(BeginCheck(cycles, programs)) <= CycleBound
          /\ LET cleared == StopTimers(timers, intervalId)
                 id == NewTimerId(cleared)
             IN /\ timers' = cleared \cup {[id |-> id, period |-> intervalMs]}
                /\ intervalId' = id
          /\ cycles' = BeginCheck(cycles, programs)
          /\ lastCycle' = CheckReturned(programs)
          /\ UNCHANGED transitions
     ELSE /\ UNCHANGED <<timers, intervalId, cycles>>
          /\ lastCycle' = NoCycle
          /\ UNCHANGED transitions
  /\ UNCHANGED lastReportedPrograms
  /\ UNCHANGED regVars
  /\ ret' = [NoRet EXCEPT !.op = "setMonitoringInterval",
                          !.result = IF intervalId # 0 THEN <<"stopped">> ELSE <<>>]

\* the callback of a timer that fires once
TimerTickOnce(t) ==
  /\ WinIdle
  /\ t \in timers
  /\ BagCardinality(BeginCheck(cycles, programs)) <= CycleBound
  /\ cycles' = BeginCheck(cycles, programs)
  /\ timers' = timers \ {t}
  /\ UNCHANGED <<intervalId, monitoringInterval, lastReportedPrograms>>
  /\ lastCycle' = CheckReturned(programs)
  /\ UNCHANGED transitions
  /\ UNCHANGED regVars
  /\ ret' = NoRet

\* the callback of an armed interval timer
TimerTick(t) ==
  /\ WinIdle
  /\ t \in timers
  /\ BagCardinality(BeginCheck(cycles, programs)) <= CycleBound
  /\ cycles' = BeginCheck(cycles, programs)
  /\ UNCHANGED <<intervalId, timers, monitoringInterval, lastReportedPrograms>>
  /\ lastCycle' = CheckReturned(programs)
  /\ UNCHANGED transitions
  /\ UNCHANGED regVars
  /\ ret' = NoRet

\* what one awaited isProcessRunning, whose listing returned ps, adds to the
\* running list of call c
Scanned(c, ps) ==
  IF IsProcessRunning(ps, c.paths[c.i])
  THEN Append(c.running, c.paths[c.i])
  ELSE c.running

\* getRunningEnrolledPrograms: the check of one path that is not the last
ScanStep(c) ==
  /\ WinIdle
  /\ BagIn(c, cycles)
  /\ c.i < Len(c.paths)
  /\ \E ps \in Listings :
       cycles' = (cycles (-) SetToBag({c}))
                   (+) SetToBag({[c EXCEPT !.running = Scanned(c, ps),
                                           !.i = c.i + 1]})
  /\ UNCHANGED <<intervalId, timers, monitoringInterval, lastReportedPrograms>>
  /\ lastCycle' = NoCycle
  /\ UNCHANGED transitions
  /\ UNCHANGED regVars
  /\ ret' = NoRet

\* the check of the last path, and the rest of checkEnrolledPrograms, which
\* runs without giving way to any other callback
FinishCheck(c) ==
  /\ WinIdle
  /\ BagIn(c, cycles)
  /\ c.i = Len(c.paths)
  /\ \E ps \in Listings, w \in WritesAfter(faults) :
     \E runningPrograms \in {Scanned(c, ps)} :
     \E sent \in SentOutcomes(Len(runningPrograms), faults) :
     \E loop \in {HeartbeatLoop(runningPrograms, programs, file, now, w, sent)} :
       LET entered == EnteredEvents(runningPrograms, lastReportedPrograms, programs)
           exited == ExitedEvents(lastReportedPrograms, runningPrograms, programs)
           saves == \E j \in 1..Len(runningPrograms) :
                      IsProgramEnrolled(programs, runningPrograms[j])
       IN /\ programs' = loop.programs
          /\ file' = loop.file
          /\ faults' = LET thrown == Cardinality({j \in 1..Len(loop.events) :
                                          loop.events[j].kind = "heartbeat failed"})
                            spent == faults + thrown + (IF saves THEN Failed(w) ELSE 0)
                        IN IF spent > MaxFaults THEN MaxFaults ELSE spent
          /\ ret' = NoRet
          /\ lastReportedPrograms' = ReplaceReported(lastReportedPrograms, runningPrograms)
          /\ lastCycle' = [kind |-> "done", paths |-> c.paths,
                           running |-> runningPrograms,
                           before |-> lastReportedPrograms,
                           events |-> entered \o exited \o loop.events]
          /\ transitions' = IF transitions.recorded
                            THEN [transitions EXCEPT
                                    !.open = LogTransitions(@, entered \o exited)]
                            ELSE transitions
  /\ cycles' = cycles (-) SetToBag({c})
  /\ UNCHANGED <<fsPaths, now, instance>>
  /\ UNCHANGED <<intervalId, timers, monitoringInterval>>

\* getCurrentlyRunningPrograms: Array.from(lastReportedPrograms)
GetCurrentlyRunningPrograms(last) == last

\* isRunning: intervalId !== null
IsRunning(id) == id # 0

\* a call of getCurrentlyRunningPrograms
CallGetCurrentlyRunningPrograms ==
  /\ WinIdle
  /\ instance
  /\ ret' = [NoRet EXCEPT !.op = "getCurrentlyRunningPrograms",
                          !.result = GetCurrentlyRunningPrograms(lastReportedPrograms)]
  /\ lastCycle' = NoCycle
  /\ UNCHANGED transitions
  /\ UNCHANGED regVars
  /\ UNCHANGED pollVars

\* a call of isRunning
CallIsRunning ==
  /\ WinIdle
  /\ instance
  /\ ret' = [NoRet EXCEPT !.op = "isRunning", !.result = <<IsRunning(intervalId)>>]
  /\ lastCycle' = NoCycle
  /\ UNCHANGED transitions
  /\ UNCHANGED regVars
  /\ UNCHANGED pollVars

\* the ids removeProgram is called with: those of the records and one that
\* no record has
\* watchKeyboardEvents that sets the flag and attaches nothing
WatchKeyboardEventsFlagOnly(n) == [isWatchingForKeyboardEvents |-> TRUE, listeners |-> n]

\* Watcher.watchKeyboardEvents and unwatchKeyboardEvents
WatchKeyboardEvents(n) == [isWatchingForKeyboardEvents |-> TRUE, listeners |-> AddListener(n)]
UnwatchKeyboardEvents(n) == [isWatchingForKeyboardEvents |-> FALSE, listeners |-> RemoveListener(n)]

\* a step of the window watcher: the registry and the polling watcher are
\* not involved
WinStep ==
  /\ UNCHANGED regVars
  /\ UNCHANGED pollVars
  /\ lastCycle' = NoCycle
  /\ UNCHANGED transitions

\* Watcher.start: subscribeActiveWindow returns a handle or throws
WatcherStart ==
  /\ instance
  /\ WinStep
  /\ keyed' = NoKey
  /\ \E subscribed \in BOOLEAN :
       IF subscribed
       THEN /\ Cardinality(subscriptions) < MaxSubscriptions
            /\ activeWindowSubscription' = LeastUnused(subscriptions, 1)
            /\ subscriptions' = subscriptions \cup {LeastUnused(subscriptions, 1)}
            /\ UNCHANGED <<activeWindow, isWatchingForKeyboardEvents, fallbackMode, listeners>>
            /\ ret' = [NoRet EXCEPT !.op = "Watcher.start", !.result = <<>>]
       ELSE /\ listeners < MaxListeners
            /\ fallbackMode' = TRUE
            /\ isWatchingForKeyboardEvents' = WatchKeyboardEvents(listeners).isWatchingForKeyboardEvents
            /\ listeners' = WatchKeyboardEvents(listeners).listeners
            /\ UNCHANGED <<activeWindow, activeWindowSubscription, subscriptions>>
            /\ ret' = [NoRet EXCEPT !.op = "Watcher.start",
                                    !.result = <<"Failed to start window monitoring">>]

\* Watcher.stop: unsubscribeActiveWindow succeeds or throws
WatcherStop ==
  /\ instance
  /\ WinStep
  /\ keyed' = NoKey
  /\ \E unsubscribed \in BOOLEAN :
       /\ activeWindowSubscription = 0 => unsubscribed
       /\ subscriptions' = IF activeWindowSubscription # 0 /\ unsubscribed
                           THEN subscriptions \ {activeWindowSubscription}
                           ELSE subscriptions
       /\ ret' = [NoRet EXCEPT !.op = "Watcher.stop",
                               !.result = IF unsubscribed THEN <<>>
                                          ELSE <<"Failed to unsubscribe">>]
  /\ activeWindowSubscription' = 0
  /\ isWatchingForKeyboardEvents' = UnwatchKeyboardEvents(listeners).isWatchingForKeyboardEvents
  /\ listeners' = UnwatchKeyboardEvents(listeners).listeners
  /\ UNCHANGED <<activeWindow, fallbackMode>>

\* a comparison of the whole window, title included
IsTrackedWindow(tracked, windowInfo) == tracked = windowInfo

\* this.activeWindow?.info.processId === windowInfo.info.processId
IsTrackedProcess(tracked, windowInfo) == tracked.processId = windowInfo.processId

\* the callback start() subscribed, called by the window library with the
\* window that took the focus
WindowChanged(sub, windowInfo) ==
  /\ sub \in subscriptions
  /\ WinStep
  /\ keyed' = NoKey
  /\ IF windowInfo.processId = 0 \/ IsTrackedProcess(activeWindow, windowInfo)
     THEN /\ UNCHANGED winVars
          /\ ret' = [NoRet EXCEPT
                      !.op = "windowChanged",
                      !.result = IF windowInfo.processId = 0
                                 THEN <<"ignored: no processId">>
                                 ELSE <<"ignored: same processId">>]
     ELSE LET unwatched == IF isWatchingForKeyboardEvents
                           THEN UnwatchKeyboardEvents(listeners)
                           ELSE [isWatchingForKeyboardEvents |-> FALSE,
                                 listeners |-> listeners]
              watched == IF windowInfo.path # <<>> /\ IsMonitored(programs, windowInfo.path)
                         THEN WatchKeyboardEvents(unwatched.listeners)
                         ELSE unwatched
          IN /\ watched.listeners <= MaxListeners
             /\ activeWindow' = windowInfo
             /\ isWatchingForKeyboardEvents' = watched.isWatchingForKeyboardEvents
             /\ listeners' = watched.listeners
             /\ UNCHANGED <<activeWindowSubscription, fallbackMode, subscriptions>>
             /\ ret' = [NoRet EXCEPT
                         !.op = "windowChanged",
                         !.result = (IF isWatchingForKeyboardEvents
                                     THEN <<"unwatched">> ELSE <<>>)
                                    \o <<"App changed">>
                                    \o (IF windowInfo.path = <<>> THEN <<>>
                                        ELSE IF IsMonitored(programs, windowInfo.path)
                                        THEN <<"Monitoring">>
                                        ELSE <<"Not monitoring">>)]

\* a key goes down or up while the listener is attached: the key hook calls
\* it with the event, and it asks the window library for the focused window
KeyEvent(state, live, classified) ==
  /\ listeners > 0
  /\ WinStep
  /\ ret' = NoRet
  /\ LET done == EmitKey(listeners, fallbackMode, activeWindow, state, live,
                         programs, classified)
     IN /\ fallbackMode' = done.fallbackMode
        /\ keyed' = [state |-> state, live |-> live,
                     heartbeats |-> done.heartbeats, logs |-> done.logs]
  /\ UNCHANGED <<activeWindow, activeWindowSubscription, isWatchingForKeyboardEvents,
                 subscriptions, listeners>>

\* a step of the process scanner on its own: nothing of the registry or of
\* the watchers changes
ScanOnly ==
  /\ WinIdle
  /\ UNCHANGED regVars
  /\ UNCHANGED pollVars
  /\ lastCycle' = NoCycle
  /\ UNCHANGED transitions

\* a call of one of the scanner's functions that has not been made yet
Call(op, args) == [NoRet EXCEPT !.op = "call", !.saved = op, !.result = args]
IsCall(r, op, args) == r.op = "call" /\ r.saved = op /\ r.result = args

\* ProcessMonitor.isProcessRunning(executablePath) when the listing is ps
CallIsProcessRunning(ps, executablePath) ==
  /\ IsCall(ret, "isProcessRunning", <<executablePath, ps>>)
  /\ ScanOnly
  /\ ret' = [NoRet EXCEPT !.op = "isProcessRunning",
                          !.result = <<executablePath, ps,
                                       IsProcessRunning(ps, executablePath)>>]

\* ProcessMonitor.getRunningProcesses() on a platform, with the outcome of
\* the listing command
CallGetRunningProcesses(platform, exec) ==
  /\ IsCall(ret, "getRunningProcesses", <<platform, exec>>)
  /\ ScanOnly
  /\ LET r == GetRunningProcesses(platform, exec)
     IN ret' = [NoRet EXCEPT !.op = "getRunningProcesses",
                             !.result = <<platform, exec.ok, r.raised, r.processes>>]

\* ProcessMonitor.getRunningEnrolledPrograms(enrolledPaths), with the listing
\* each of its isProcessRunning calls gets
CallGetRunningEnrolledPrograms(enrolledPaths, scans) ==
  /\ IsCall(ret, "getRunningEnrolledPrograms", <<enrolledPaths, scans>>)
  /\ ScanOnly
  /\ ret' = [NoRet EXCEPT !.op = "getRunningEnrolledPrograms",
                          !.result = <<enrolledPaths, scans,
                                       GetRunningEnrolledPrograms(enrolledPaths, scans)>>]

RemoveIds == IdsOf(programs) \cup {GenerateId(programs, file)}

Next ==
  \/ Construct
  \/ \E p \in Paths : Enroll(p)
  \/ \E id \in RemoveIds : Remove(id)
  \/ \E p \in Paths : TouchLastSeen(p)
  \/ Tick
  \/ \E p \in Paths : FsChange(p)
  \/ Quit

Spec == Init /\ [][Next]_vars

\* ------------------------------------------------- the behaviours of loading
\* before the first launch, with any enrollment file of up to MaxFileLen
\* entries
InitLoad ==
  /\ fsPaths \in SUBSET Paths
  /\ file \in {AbsentFile, GarbageFile}
              \cup {JsonFile(s) : s \in SeqsUpTo(FileEntries, MaxFileLen)}
  /\ now = 0
  /\ instance = FALSE
  /\ faults = 0
  /\ programs = <<>>
  /\ ret = NoRet
  /\ intervalId = 0
  /\ timers = {}
  /\ monitoringInterval = DefaultInterval
  /\ lastReportedPrograms = <<>>
  /\ cycles = EmptyBag
  /\ lastCycle = NoCycle
  /\ transitions = NotRecorded
  /\ WinInit

\* launches and exits, while executables come and go
NextLoad ==
  \/ Construct
  \/ \E p \in Paths : FsChange(p)
  \/ Quit

SpecLoad == InitLoad /\ [][NextLoad]_vars

\* --------------------------------------------- the polling watcher's behaviours
\* the registry has loaded a well-formed file whose paths all exist, the
\* watcher has been constructed, and the disk does not fail
InitPoll ==
  /\ fsPaths = Paths
  /\ file \in PollFiles
  /\ programs = LoadPrograms(<<>>, file, fsPaths, TRUE, TRUE, "ok").programs
  /\ now = 0
  /\ instance = TRUE
  /\ faults = MaxFaults
  /\ ret = [NoRet EXCEPT !.op = "load", !.result = <<"loaded">>, !.saved = "ok"]
  /\ intervalId = 0
  /\ timers = {}
  /\ monitoringInterval = DefaultInterval
  /\ lastReportedPrograms = <<>>
  /\ cycles = EmptyBag
  /\ lastCycle = NoCycle
  /\ transitions = NotRecorded
  /\ WinInit

NextPoll ==
  \/ Start
  \/ \E t \in timers : TimerTick(t)
  \/ \E c \in BagToSet(cycles) : ScanStep(c)
  \/ \E c \in BagToSet(cycles) : FinishCheck(c)
  \/ \E p \in Paths : IpcEnrollProgram(p)
  \/ \E id \in RemoveIds : IpcRemoveEnrolledProgram(id)

SpecPoll == InitPoll /\ [][NextPoll]_vars

\* ------------------------------------------- the watcher's control surface
\* start, stop and reconfiguration of the watcher over a registry that does
\* not change, with the cycles they begin
NextTimer ==
  \/ Start
  \/ Stop
  \/ \E intervalMs \in Intervals : SetMonitoringInterval(intervalMs)
  \/ \E t \in timers : TimerTick(t)
  \/ \E c \in BagToSet(cycles) : ScanStep(c)
  \/ \E c \in BagToSet(cycles) : FinishCheck(c)
  \/ CallGetCurrentlyRunningPrograms
  \/ CallIsRunning

SpecTimer == InitPoll /\ [][NextTimer]_vars

\* --------------------------------------------- cycles whose dispatch fails
\* the watcher over a registry that does not change, where
\* wakatime.sendHeartbeat and the write of the registry file may fail
InitFault ==
  /\ fsPaths = Paths
  /\ file \in PollFiles
  /\ programs = LoadPrograms(<<>>, file, fsPaths, TRUE, TRUE, "ok").programs
  /\ now = 0
  /\ instance = TRUE
  /\ faults = 0
  /\ ret = [NoRet EXCEPT !.op = "load", !.result = <<"loaded">>, !.saved = "ok"]
  /\ intervalId = 0
  /\ timers = {}
  /\ monitoringInterval = DefaultInterval
  /\ lastReportedPrograms = <<>>
  /\ cycles = EmptyBag
  /\ lastCycle = NoCycle
  /\ transitions = NotRecorded
  /\ WinInit

NextFault ==
  \/ Start
  \/ \E t \in timers : TimerTick(t)
  \/ \E c \in BagToSet(cycles) : ScanStep(c)
  \/ \E c \in BagToSet(cycles) : FinishCheck(c)

SpecFault == InitFault /\ [][NextFault]_vars

\* ------------------------------------------------ the log of transitions
\* the watcher started, stopped and ticking while programs are enrolled and
\* removed, with its "entered" and "exited" log lines followed per path
InitLog ==
  /\ fsPaths = Paths
  /\ file \in PollFiles
  /\ programs = LoadPrograms(<<>>, file, fsPaths, TRUE, TRUE, "ok").programs
  /\ now = 0
  /\ instance = TRUE
  /\ faults = MaxFaults
  /\ ret = [NoRet EXCEPT !.op = "load", !.result = <<"loaded">>, !.saved = "ok"]
  /\ intervalId = 0
  /\ timers = {}
  /\ monitoringInterval = DefaultInterval
  /\ lastReportedPrograms = <<>>
  /\ cycles = EmptyBag
  /\ lastCycle = NoCycle
  /\ transitions = [recorded |-> TRUE, open |-> {}]
  /\ WinInit

NextLog ==
  \/ Start
  \/ Stop
  \/ \E t \in timers : TimerTick(t)
  \/ \E c \in BagToSet(cycles) : ScanStep(c)
  \/ \E c \in BagToSet(cycles) : FinishCheck(c)
  \/ \E p \in Paths : IpcEnrollProgram(p)
  \/ \E id \in RemoveIds : IpcRemoveEnrolledProgram(id)

SpecLog == InitLog /\ [][NextLog]_vars

\* ------------------------------------------------- the watcher left running
\* the watcher started and stopped while programs are enrolled, where an
\* armed timer keeps firing and every awaited listing comes back
NextLive ==
  \/ Start
  \/ Stop
  \/ \E t \in timers : TimerTick(t)
  \/ \E c \in BagToSet(cycles) : ScanStep(c)
  \/ \E c \in BagToSet(cycles) : FinishCheck(c)
  \/ \E p \in Paths : IpcEnrollProgram(p)

SpecLive ==
  /\ InitPoll
  /\ [][NextLive]_vars
  /\ SF_vars(\E t \in timers : TimerTick(t))
  /\ WF_vars(\E c \in BagToSet(cycles) : ScanStep(c))
  /\ WF_vars(\E c \in BagToSet(cycles) : FinishCheck(c))

\* ------------------------------------------- the window/keyboard watcher
\* the window watcher started and stopped, focus changes and key events
\* delivered to it, over a registry the renderer enrolls into and removes from
NextWindow ==
  \/ WatcherStart
  \/ WatcherStop
  \/ \E sub \in subscriptions, windowInfo \in Windows : WindowChanged(sub, windowInfo)
  \/ \E state \in {"DOWN", "UP"}, live \in Windows \cup {QueryFailed}, classified \in BOOLEAN :
       KeyEvent(state, live, classified)
  \/ \E p \in Paths : IpcEnrollProgram(p)
  \/ \E id \in RemoveIds : IpcRemoveEnrolledProgram(id)

SpecWindow == InitPoll /\ [][NextWindow]_vars

\* ------------------------------------------------------ the process scanner
\* the scanner's functions applied to listings and paths of every kind: a
\* behaviour starts with the call to make and makes it
IsProcessRunningArgs ==
  {<<executablePath, ps>> : executablePath \in ScanPaths, ps \in SUBSET ScanProcs}
GetRunningProcessesArgs ==
  {<<platform, exec>> : platform \in Platforms, exec \in Execs}
GetRunningEnrolledProgramsArgs ==
  UNION {{<<enrolledPaths, scans>> : scans \in [1..Len(enrolledPaths) -> Listings]} :
           enrolledPaths \in SeqsUpTo(Paths, MaxCandidates)}

InitScan ==
  /\ fsPaths = Paths
  /\ file = JsonFile(<<>>)
  /\ programs = <<>>
  /\ now = 0
  /\ instance = TRUE
  /\ faults = MaxFaults
  /\ \/ \E a \in IsProcessRunningArgs : ret = Call("isProcessRunning", a)
     \/ \E a \in GetRunningProcessesArgs : ret = Call("getRunningProcesses", a)
     \/ \E a \in GetRunningEnrolledProgramsArgs : ret = Call("getRunningEnrolledPrograms", a)
  /\ intervalId = 0
  /\ timers = {}
  /\ monitoringInterval = DefaultInterval
  /\ lastReportedPrograms = <<>>
  /\ cycles = EmptyBag
  /\ lastCycle = NoCycle
  /\ transitions = NotRecorded
  /\ WinInit

NextScan ==
  \/ \E a \in IsProcessRunningArgs : CallIsProcessRunning(a[2], a[1])
  \/ \E a \in GetRunningProcessesArgs : CallGetRunningProcesses(a[1], a[2])
  \/ \E a \in GetRunningEnrolledProgramsArgs : CallGetRunningEnrolledPrograms(a[1], a[2])

SpecScan == InitScan /\ [][NextScan]_vars

\* ------------------------------------------------------------------ claims
CountPath(progs, p) == Cardinality({i \in 1..Len(progs) : progs[i].path = p})
CountId(progs, id) == Cardinality({i \in 1..Len(progs) : progs[i].id = id})

\* C1: in every reachable state of the registry no two enrolled records have
\* the same path
C1_UniquePaths ==
  \A i, j \in 1..Len(programs) : i # j => programs[i].path # programs[j].path

\* C2: enroll(path) for a path that is not on disk, or that is already
\* enrolled, returns the rejection (null) and leaves the in-memory list and
\* the persisted file unchanged
C2_EnrollRejected ==
  [][\A p \in Paths :
       (ret'.op = "enroll" /\ Enroll(p)
          /\ (p \notin fsPaths \/ IsProgramEnrolled(programs, p)))
         => /\ ret'.result = <<>>
            /\ programs' = programs
            /\ file' = file
            /\ CountPath(programs', p) = CountPath(programs, p)]_vars

\* an enrollment was rejected while every path is on disk and enrolled
C2_Witness ==
  /\ ret.op = "enroll" /\ ret.result = <<>>
  /\ fsPaths = Paths
  /\ \A p \in Paths : IsProgramEnrolled(programs, p)

\* C3: enroll(path) for a path that is on disk and not enrolled returns a new
\* record; afterwards listAll() holds exactly one record with that path,
\* isEnrolled(path) is true, and the records enrolled before are still there,
\* unchanged and in the same order
C3_EnrollAdds ==
  [][\A p \in Paths :
       (ret'.op = "enroll" /\ Enroll(p)
          /\ p \in fsPaths /\ ~IsProgramEnrolled(programs, p))
         => /\ Len(ret'.result) = 1
            /\ ret'.result[1].path = p
            /\ CountPath(GetAllPrograms(programs'), p) = 1
            /\ IsProgramEnrolled(programs', p)
            /\ Len(programs') = Len(programs) + 1
            /\ SubSeq(programs', 1, Len(programs)) = programs
            /\ programs'[Len(programs')] = ret'.result[1]]_vars

C3_Witness ==
  /\ ret.op = "enroll" /\ Len(ret.result) = 1
  /\ Len(programs) >= 2
  /\ programs[Len(programs)] = ret.result[1]

\* C4: remove(id) for an id that no record has returns not-found (false) and
\* leaves listAll() and the persisted file unchanged
C4_RemoveUnknown ==
  [][\A id \in RemoveIds :
       (ret'.op = "remove" /\ Remove(id) /\ CountId(programs, id) = 0)
         => /\ ret'.result = <<FALSE>>
            /\ GetAllPrograms(programs') = GetAllPrograms(programs)
            /\ file' = file]_vars

C4_Witness ==
  /\ ret.op = "remove" /\ ret.result = <<FALSE>>
  /\ programs # <<>>

\* C5: remove(id) for an id that is present removes that record and persists
\* (when the write succeeds); afterwards getById(id) finds nothing and
\* isEnrolled(p) is false for the removed record's path p
C5_RemoveKnown ==
  [][\A id \in RemoveIds :
       (ret'.op = "remove" /\ Remove(id) /\ CountId(programs, id) > 0)
         => /\ ret'.result = <<TRUE>>
            /\ GetProgramById(programs', id) = <<>>
            /\ ~IsProgramEnrolled(programs', GetProgramById(programs, id)[1].path)
            /\ (ret'.saved = "ok" => file' = JsonFile(programs'))]_vars

RECURSIVE IsKeptOf(_, _, _)
\* out is what is left of in when the entries whose path is not in fs are
\* dropped and nothing else is touched
IsKeptOf(out, in, fs) ==
  IF in = <<>> THEN out = <<>>
  ELSE IF in[1].path \in fs
       THEN out # <<>> /\ out[1] = in[1] /\ IsKeptOf(Tail(out), Tail(in), fs)
       ELSE IsKeptOf(out, Tail(in), fs)

\* C6: after a load that read, parsed and rewrote the file, the in-memory
\* records are exactly the file's records whose path exists on disk, in file
\* order, and the file holds that pruned list
C6_LoadPrunes ==
  [][(ret'.op = "load" /\ Construct /\ ret'.result = <<"loaded">>)
       => /\ IsKeptOf(programs', file.programs, fsPaths)
          /\ (ret'.saved = "ok" => file' = JsonFile(programs'))]_vars

\* a load that dropped a record and kept another
C6_Witness ==
  /\ ret.op = "load" /\ ret.result = <<"loaded">> /\ ret.saved = "ok"
  /\ ret.removed > 0
  /\ programs # <<>>
  /\ file = JsonFile(programs)

\* C7: when the enrollment file cannot be read or parsed, load() leaves the
\* registry empty: listAll() and listPaths() are empty and isEnrolled(p) is
\* false for every p
C7_LoadFailureEmpty ==
  [][(ret'.op = "load" /\ Construct
        /\ (ret'.result = <<"failed">>
             \/ (file.kind # "absent" /\ ~SchemaOk(file))))
       => /\ ret'.result = <<"failed">>
          /\ GetAllPrograms(programs') = <<>>
          /\ GetEnrolledPaths(programs') = <<>>
          /\ \A p \in Paths : ~IsProgramEnrolled(programs', p)]_vars

\* a file whose entries are partly well-formed, with their paths on disk
C7_Witness ==
  /\ ret.op = "load" /\ ret.result = <<"failed">>
  /\ file.kind = "json"
  /\ \E i \in 1..Len(file.programs) :
       file.programs[i].id # NotAString /\ file.programs[i].path \in fsPaths

\* C8 as stated: after load, enroll, remove or touchLastSeen returns, the
\* list in the persisted file equals the in-memory list (a file that does
\* not exist counts as the empty list)
C8_FileEqualsMemory ==
  instance => \/ file = JsonFile(programs)
              \/ (file.kind = "absent" /\ programs = <<>>)

\* C8 amended: after an operation that rewrote the file successfully, and
\* until the next registry operation, the list in the file equals the
\* in-memory list
C8_FileEqualsMemoryAfterWrite ==
  (instance /\ ret.saved = "ok") => file = JsonFile(programs)

C8_Witness ==
  /\ instance /\ ret.saved = "ok" /\ ret.op = "touch"
  /\ Len(programs) >= 2
  /\ \E i \in 1..Len(programs) : programs[i].lastSeen # NoTime

TypeOK ==
  /\ fsPaths \subseteq Paths
  /\ now \in Times
  /\ instance \in BOOLEAN

\* the paths of the events of one kind, in order
PathsOf(events, kind) ==
  LET RECURSIVE Go(_)
      Go(es) == IF es = <<>> THEN <<>>
                ELSE (IF es[1].kind = kind THEN <<es[1].path>> ELSE <<>>) \o Go(Tail(es))
  IN Go(events)

\* the heartbeat and touchLastSeen events of a cycle, in order
Dispatches(events) ==
  LET RECURSIVE Go(_)
      Go(es) == IF es = <<>> THEN <<>>
                ELSE (IF es[1].kind \in {"heartbeat", "touch"} THEN <<es[1]>> ELSE <<>>)
                     \o Go(Tail(es))
  IN Go(events)

Occurrences(s, x) == Cardinality({i \in 1..Len(s) : s[i] = x})

\* every heartbeat is directly followed by the touchLastSeen of its path
TouchFollowsHeartbeat(events) ==
  LET d == Dispatches(events)
  IN \A n \in 1..Len(d) :
       d[n].kind = "heartbeat"
         => n < Len(d) /\ d[n + 1] = Event("touch", d[n].path)

\* C9 as stated: in each polling cycle that is not skipped one heartbeat is
\* dispatched for each entry of runningNow and none for any other path, and
\* touchLastSeen(path) is called after that path's heartbeat
C9_HeartbeatPerRunning ==
  lastCycle.paths # <<>>
    => /\ \A p \in Paths : Occurrences(PathsOf(lastCycle.events, "heartbeat"), p)
                             = Occurrences(lastCycle.running, p)
       /\ PathsOf(lastCycle.events, "touch") = lastCycle.running
       /\ TouchFollowsHeartbeat(lastCycle.events)

\* C9 amended: in each polling cycle that is not skipped one heartbeat is
\* dispatched for each entry of runningNow whose path is enrolled when the
\* cycle dispatches and none for any other path, and touchLastSeen(path) is
\* called for every entry of runningNow, right after the entry's heartbeat
C9_HeartbeatPerEnrolledRunning ==
  lastCycle.paths # <<>>
    => /\ \A p \in Paths : Occurrences(PathsOf(lastCycle.events, "heartbeat"), p)
                             = IF IsProgramEnrolled(programs, p)
                               THEN Occurrences(lastCycle.running, p)
                               ELSE 0
       /\ PathsOf(lastCycle.events, "touch") = lastCycle.running
       /\ TouchFollowsHeartbeat(lastCycle.events)

\* a cycle that found two paths running, one of them removed during the scan
C9_Witness ==
  /\ Len(lastCycle.running) = 2
  /\ Len(PathsOf(lastCycle.events, "heartbeat")) = 1
  /\ \E j \in 1..2 : ~IsProgramEnrolled(programs, lastCycle.running[j])

\* C10: no two polling cycles are in progress at the same time
C10_NoOverlap == BagCardinality(cycles) <= 1

\* C11 as stated: in every polling cycle that is not skipped an "exited"
\* transition is emitted for exactly the paths that are in lastRunningSet
\* and not in runningNow, also when the program has been removed from the
\* registry since the previous cycle
C11_ExitedForLeft ==
  lastCycle.paths # <<>>
    => PathsOf(lastCycle.events, "exited")
         = SeqFilter(lastCycle.before, Paths \ Range(lastCycle.running))

\* C11 amended: in every polling cycle that is not skipped an "exited"
\* transition is emitted for exactly the paths that are in lastRunningSet,
\* not in runningNow, and still enrolled when the cycle compares the sets;
\* none is emitted for a path whose program has been removed
C11_ExitedForLeftEnrolled ==
  lastCycle.paths # <<>>
    => PathsOf(lastCycle.events, "exited")
         = SeqFilter(lastCycle.before,
                     {p \in Paths \ Range(lastCycle.running) :
                        IsProgramEnrolled(programs, p)})

\* two paths were running, neither is now; one of them has been removed
\* since and the other gets its "exited"
C11_Witness ==
  /\ Len(lastCycle.before) = 2
  /\ lastCycle.running = <<>>
  /\ Len(PathsOf(lastCycle.events, "exited")) = 1

\* C12 as stated: in every polling cycle that is not skipped an "entered"
\* transition is emitted for exactly the paths that are in runningNow and
\* not in lastRunningSet
C12_EnteredForNew ==
  lastCycle.paths # <<>>
    => Range(PathsOf(lastCycle.events, "entered"))
         = Range(lastCycle.running) \ Range(lastCycle.before)

\* C12 amended: in every polling cycle that is not skipped an "entered"
\* transition is emitted for exactly the paths that are in runningNow, not
\* in lastRunningSet, and still enrolled when the cycle compares the sets
C12_EnteredForNewEnrolled ==
  lastCycle.paths # <<>>
    => Range(PathsOf(lastCycle.events, "entered"))
         = {p \in Range(lastCycle.running) \ Range(lastCycle.before) :
              IsProgramEnrolled(programs, p)}

\* one path was running before, a second one is running now and gets its
\* "entered", the first gets none
C12_Witness ==
  /\ Len(lastCycle.before) = 1
  /\ Len(lastCycle.running) = 2
  /\ lastCycle.before[1] \in Range(lastCycle.running)
  /\ Len(PathsOf(lastCycle.events, "entered")) = 1
  /\ \A p \in Paths : IsProgramEnrolled(programs, p)

\* C13: at the end of every polling cycle that is not skipped lastRunningSet
\* holds exactly the paths of the runningNow of that cycle, and
\* getCurrentlyRunningPrograms returns exactly that set (right after the
\* cycle, the paths the cycle found running) and changes no state
C13_LastRunningReplaced ==
  [][/\ lastCycle'.kind = "done"
          => Range(lastReportedPrograms') = Range(lastCycle'.running)
     /\ ret'.op = "getCurrentlyRunningPrograms"
          => /\ ret'.result = lastReportedPrograms
             /\ lastCycle.kind = "done" => Range(ret'.result) = Range(lastCycle.running)
             /\ UNCHANGED <<regVars, pollVars>>]_vars

\* getCurrentlyRunningPrograms returned two paths while a later cycle is
\* awaiting its scan
C13_Witness ==
  /\ ret.op = "getCurrentlyRunningPrograms"
  /\ Len(ret.result) = 2
  /\ cycles # EmptyBag

\* C14: a polling cycle that finds no enrolled path does nothing: no scan is
\* begun, no "entered" or "exited" is emitted, no heartbeat is dispatched,
\* no lastSeen is touched, and lastRunningSet stays as it was
C14_EmptyRegistrySkips ==
  [][lastCycle'.kind = "skipped"
       => /\ GetEnrolledPaths(programs) = <<>>
          /\ cycles' = cycles
          /\ lastCycle'.events = <<>>
          /\ programs' = programs
          /\ file' = file
          /\ lastReportedPrograms' = lastReportedPrograms]_vars

\* a cycle is skipped while lastRunningSet still holds a path reported
\* before the programs were removed
C14_Witness ==
  /\ lastCycle.kind = "skipped"
  /\ lastReportedPrograms # <<>>

\* C15: at most one polling timer is armed at any time; start() clears the
\* armed timer before it arms a new one, so after any start() exactly one
\* timer is armed, it is the one intervalId holds, and isRunning() is true
C15_OneTimer ==
  /\ Cardinality(timers) <= 1
  /\ ret.op = "start"
       => /\ Cardinality(timers) = 1
          /\ \A t \in timers : t.id = intervalId
          /\ IsRunning(intervalId)

\* start() was called while a timer was armed
C15_Witness ==
  /\ ret.op = "start" /\ ret.result = <<"stopped">>
  /\ Cardinality(timers) = 1

\* C16: stop(), also when no timer is armed (called twice in a row or before
\* any start()), leaves no timer armed and isRunning() false; isRunning()
\* is true exactly when a timer is armed
C16_StopInert ==
  /\ IsRunning(intervalId) <=> timers # {}
  /\ ret.op = "stop" => timers = {} /\ ~IsRunning(intervalId)
  /\ ret.op = "isRunning" => ret.result = <<timers # {}>>

\* stop() found nothing to stop, after an earlier start() whose cycle is
\* still awaiting its scan
C16_Witness ==
  /\ ret.op = "stop" /\ ret.result = <<>>
  /\ cycles # EmptyBag

\* the checkEnrolledPrograms calls a step begins: the growth of the cycles
\* awaiting their scan (a cycle that completes leaves them, which its "done"
\* makes up for) and the call that returns at once on an empty registry
Begun ==
  BagCardinality(cycles') - BagCardinality(cycles)
    + (IF lastCycle'.kind = "skipped" THEN 1 ELSE 0)
    + (IF lastCycle'.kind = "done" THEN 1 ELSE 0)

\* C17: from the return of stop() to the next start() no polling cycle
\* begins: while intervalId is null no timer is armed, and no step other
\* than start() begins a cycle
C17_NoCycleAfterStop ==
  [][/\ ret'.op = "stop" => timers' = {} /\ Begun = 0
     /\ (~IsRunning(intervalId) /\ ret'.op # "start") => Begun = 0 /\ timers' = {}]_vars

\* the watcher is stopped after it ran, the interval was set while it was
\* stopped, and a cycle begun before the stop is still awaiting its scan
C17_Witness ==
  /\ ret.op = "setMonitoringInterval" /\ ret.result = <<>>
  /\ ~IsRunning(intervalId)
  /\ cycles # EmptyBag

\* C18: start() begins one polling cycle at once, in the step that arms the
\* timer, and each tick of the timer begins exactly one cycle
C18_StartChecksAtOnce ==
  [][/\ ret'.op = "start" => Begun = 1 /\ Cardinality(timers') = 1
     /\ (\E t \in timers : TimerTick(t)) => Begun = 1]_vars

\* start() armed the timer and its cycle is awaiting its scan
C18_Witness ==
  /\ ret.op = "start" /\ ret.result = <<>>
  /\ BagCardinality(cycles) = 1
  /\ Cardinality(timers) = 1

\* C19: setMonitoringInterval(n) while a timer is armed clears it and arms
\* exactly one timer of period n, and isRunning() stays true; while no timer
\* is armed it records n and nothing else: no timer is armed, no cycle
\* begins; and the timer start() arms has the recorded period
C19_SetInterval ==
  [][/\ \A n \in Intervals :
          (ret'.op = "setMonitoringInterval" /\ SetMonitoringInterval(n))
            => /\ monitoringInterval' = n
               /\ IsRunning(intervalId)
                    => /\ timers' = {[id |-> intervalId', period |-> n]}
                       /\ IsRunning(intervalId')
               /\ ~IsRunning(intervalId)
                    => /\ timers' = {} /\ ~IsRunning(intervalId')
                       /\ Begun = 0
                       /\ UNCHANGED <<cycles, lastReportedPrograms, programs, file>>
     /\ ret'.op = "start" => \A t \in timers' : t.period = monitoringInterval
     /\ monitoringInterval' # monitoringInterval => ret'.op = "setMonitoringInterval"]_vars

\* the interval was changed while the timer was armed
C19_Witness ==
  /\ ret.op = "setMonitoringInterval" /\ ret.result = <<"stopped">>
  /\ timers = {[id |-> intervalId, period |-> 1000]}
  /\ monitoringInterval = 1000

C21_FocusChange ==
  [][\A sub \in subscriptions, windowInfo \in Windows :
        (/\ ret'.op = "windowChanged"
         /\ windowInfo.processId # 0
         /\ windowInfo.processId # activeWindow.processId
         /\ WindowChanged(sub, windowInfo))
          => /\ activeWindow' = windowInfo
             /\ isWatchingForKeyboardEvents' <=> IsProgramEnrolled(programs, windowInfo.path)
             /\ (isWatchingForKeyboardEvents <=> "unwatched" \in Range(ret'.result))
             /\ listeners' = (IF isWatchingForKeyboardEvents
                              THEN RemoveListener(listeners) ELSE listeners)
                             + (IF IsProgramEnrolled(programs, windowInfo.path)
                                THEN 1 ELSE 0)]_vars

\* the focus went from a window that was being watched to the window of a
\* program that is not enrolled: watching was stopped and stays off
C21_Witness ==
  /\ ret.op = "windowChanged"
  /\ ret.result = <<"unwatched", "App changed", "Not monitoring">>
  /\ activeWindow = Window(2, PathB, "t1")
  /\ ~isWatchingForKeyboardEvents /\ listeners = 0

\* C22: a focus-change event whose process id is the tracked one changes
\* nothing: activeWindow, the watching flag, fallbackMode, the subscription
\* and the attachments of the key listener stay as they are, and the
\* registry is neither consulted nor changed
C22_SameProcessIgnored ==
  [][\A sub \in subscriptions, windowInfo \in Windows :
        (/\ ret'.op = "windowChanged"
         /\ windowInfo.processId # 0
         /\ windowInfo.processId = activeWindow.processId
         /\ WindowChanged(sub, windowInfo))
          => /\ UNCHANGED winVars
             /\ UNCHANGED regVars
             /\ ret'.result = <<"ignored: same processId">>]_vars

\* another window of the tracked process took the focus after its program
\* was enrolled: the event was ignored, the title tracked is the old one and
\* keyboard watching is still off
C22_Witness ==
  /\ ret.op = "windowChanged"
  /\ ret.result = <<"ignored: same processId">>
  /\ activeWindow = Window(1, PathA, "t1")
  /\ IsProgramEnrolled(programs, PathA)
  /\ ~isWatchingForKeyboardEvents /\ listeners = 0

\* C23: when stop() of the window watcher returns, the watcher holds no
\* window-focus subscription, keyboard watching is off and the key listener
\* is not attached, whether or not the unsubscribe call failed, in fallback
\* mode or not, before start() or after another stop()
C23_StopDetaches ==
  ret.op = "Watcher.stop"
    => /\ activeWindowSubscription = 0
       /\ ~isWatchingForKeyboardEvents
       /\ listeners = 0

\* C24: a start() whose window-subscription call throws returns normally
\* with fallbackMode set, the watching flag set and the key listener
\* attached once more, whatever is enrolled and whether or not there is an
\* activeWindow; it holds no subscription from that call and changes neither
\* activeWindow nor the registry
C24_StartFallback ==
  [][(ret'.op = "Watcher.start" /\ ret'.result # <<>>)
       => /\ fallbackMode'
          /\ isWatchingForKeyboardEvents'
          /\ listeners' = listeners + 1
          /\ UNCHANGED <<activeWindow, activeWindowSubscription, subscriptions>>
          /\ UNCHANGED regVars]_vars

\* the subscription failed with nothing enrolled and no window tracked, and
\* keyboard watching is on
C24_Witness ==
  /\ ret.op = "Watcher.start" /\ ret.result = <<"Failed to start window monitoring">>
  /\ programs = <<>> /\ activeWindow = NoWindow
  /\ fallbackMode /\ isWatchingForKeyboardEvents /\ listeners = 1

\* C25: a key-down whose live window query throws dispatches no heartbeat
\* and leaves fallbackMode set, the listener attached and the watching flag
\* as they were; the failure is logged only if fallbackMode was not set
\* before, and fallbackMode is never cleared while the watcher lives, so it
\* is logged at most once
C25_QueryFailure ==
  [][/\ (keyed'.state = "DOWN" /\ keyed'.live = QueryFailed)
          => /\ keyed'.heartbeats = <<>>
             /\ fallbackMode'
             /\ keyed'.logs = (IF fallbackMode THEN 0 ELSE 1)
             /\ UNCHANGED <<listeners, isWatchingForKeyboardEvents, activeWindow,
                            activeWindowSubscription, subscriptions>>
     /\ keyed'.logs <= 1
     /\ keyed'.logs = 1 => ~fallbackMode /\ fallbackMode'
     /\ fallbackMode => fallbackMode']_vars

\* the first failed query: logged, fallbackMode set, the listener still
\* attached
C25_Witness ==
  /\ keyed.state = "DOWN" /\ keyed.live = QueryFailed
  /\ keyed.logs = 1 /\ keyed.heartbeats = <<>>
  /\ fallbackMode /\ isWatchingForKeyboardEvents /\ listeners = 1

\* C26: a key-up dispatches no heartbeat and changes no watcher state; a
\* key-down that arrives while keyboard watching is on dispatches at most
\* one heartbeat, built from the window the live query reports and not from
\* the cached activeWindow, and none when the classification returns nothing
C26_KeyHandling ==
  [][\A state \in {"DOWN", "UP"}, live \in Windows \cup {QueryFailed},
        classified \in BOOLEAN :
        (keyed'.state = state /\ KeyEvent(state, live, classified))
          => /\ state = "UP"
                  => keyed'.heartbeats = <<>> /\ keyed'.logs = 0 /\ UNCHANGED winVars
             /\ (state = "DOWN" /\ isWatchingForKeyboardEvents)
                  => /\ Len(keyed'.heartbeats) <= 1
                     /\ \A i \in 1..Len(keyed'.heartbeats) :
                          keyed'.heartbeats[i].windowInfo = live
                     /\ ~classified => keyed'.heartbeats = <<>>]_vars

\* b is what follows the last "/" of p, all of p when it has none
IsBasenameOf(b, p) ==
  \E k \in 0..Len(p) :
    /\ b = SubSeq(p, k + 1, Len(p))
    /\ "/" \notin Range(b)
    /\ k = 0 \/ p[k] = "/"

\* needle occurs in hay as a run of consecutive characters
Contains(hay, needle) ==
  \E i \in 1..(Len(hay) + 1), j \in 0..Len(hay) : SubSeq(hay, i, j) = needle

\* k is where a trailing extension of s begins: a "." followed to the end by
\* one or more characters that are neither "." nor "/"
IsExtensionAt(s, k) ==
  /\ k \in 1..(Len(s) - 1)
  /\ s[k] = "."
  /\ \A j \in (k + 1)..Len(s) : s[j] \notin {".", "/"}

\* t is s without its trailing extension, s itself when it has none
IsStrippedOf(t, s) ==
  \/ \E k \in 1..Len(s) : IsExtensionAt(s, k) /\ t = SubSeq(s, 1, k - 1)
  \/ t = s /\ ~\E k \in 1..Len(s) : IsExtensionAt(s, k)

\* the three ways a process matches an executable path
MatchesByName(proc, p) == IsBasenameOf(proc.name, p)
MatchesByCommand(proc, p) == Contains(proc.command, p)
MatchesByStrippedName(proc, p) ==
  \E k \in 0..Len(p), n \in 0..Len(proc.name) :
    /\ IsBasenameOf(SubSeq(p, k + 1, Len(p)), p)
    /\ IsStrippedOf(SubSeq(proc.name, 1, n), proc.name)
    /\ IsStrippedOf(SubSeq(proc.name, 1, n), SubSeq(p, k + 1, Len(p)))

\* C27: isProcessRunning(executablePath) over a snapshot is true exactly
\* when some process's name is the basename of the path, or its command
\* line contains the path, or its name and the basename are equal once the
\* trailing extension is stripped from both; characters are compared as
\* they are, and over an empty snapshot it is false
C27_IsProcessRunning ==
  ret.op = "isProcessRunning"
    => LET p == ret.result[1]
           ps == ret.result[2]
       IN /\ ret.result[3]
               <=> \E proc \in ps : \/ MatchesByName(proc, p)
                                   \/ MatchesByCommand(proc, p)
                                   \/ MatchesByStrippedName(proc, p)
          /\ ps = {} => ~ret.result[3]

\* /b/c.x is found running through the process named c: neither the name
\* nor the command line matches, the names without extension do
C27_Witness ==
  /\ ret.op = "isProcessRunning"
  /\ ret.result = <<PathB, {ProcC}, TRUE>>
  /\ ~MatchesByName(ProcC, PathB) /\ ~MatchesByCommand(ProcC, PathB)

\* C28: getRunningProcesses never throws; when the listing command fails or
\* the platform has no branch it returns no process, so that no path is
\* found running in what it returns, and getRunningEnrolledPrograms returns
\* an empty list when each of its listings came back empty
C28_ListingNeverRaises ==
  /\ ret.op = "getRunningProcesses"
       => /\ ~ret.result[3]
          /\ (ret.result[1] \notin SupportedPlatforms \/ ~ret.result[2])
               => /\ ret.result[4] = {}
                  /\ \A p \in ScanPaths : ~IsProcessRunning(ret.result[4], p)
  /\ (/\ ret.op = "getRunningEnrolledPrograms"
      /\ \A i \in 1..Len(ret.result[2]) : ret.result[2][i] = {})
       => ret.result[3] = <<>>

\* a platform without a branch: nothing is thrown, nothing is listed
C28_Witness ==
  /\ ret.op = "getRunningProcesses"
  /\ ret.result = <<"freebsd", TRUE, FALSE, {}>>

\* the i-th smallest member of the set of indices K
Nth(K, i) == CHOOSE k \in K : Cardinality({j \in K : j <= k}) = i

\* C29: getRunningEnrolledPrograms returns the candidates whose
\* isProcessRunning call answered true, in the order of the input and once
\* for each occurrence; it returns no path that is not a candidate, and over
\* one unchanging listing a running candidate is returned as many times as
\* it occurs in the input and one not running never
C29_RunningSubset ==
  ret.op = "getRunningEnrolledPrograms"
    => LET candidates == ret.result[1]
           scans == ret.result[2]
           out == ret.result[3]
           K == {i \in 1..Len(candidates) : IsProcessRunning(scans[i], candidates[i])}
       IN /\ Len(out) = Cardinality(K)
          /\ \A j \in 1..Len(out) : out[j] = candidates[Nth(K, j)]
          /\ Range(out) \subseteq Range(candidates)
          /\ (\A i \in 1..Len(scans) : scans[i] = scans[1])
               => \A p \in Paths :
                    Cardinality({j \in 1..Len(out) : out[j] = p})
                      = IF Len(scans) > 0 /\ IsProcessRunning(scans[1], p)
                        THEN Cardinality({i \in 1..Len(candidates) : candidates[i] = p})
                        ELSE 0

\* one path is a candidate twice with another between them, and only it is
\* running: it is returned twice
C29_Witness ==
  /\ ret.op = "getRunningEnrolledPrograms"
  /\ ret.result = <<<<PathA, PathB, PathA>>, <<{ProcV}, {ProcV}, {ProcV}>>, <<PathA, PathA>>>>

\* the heartbeats among the events of a cycle
HeartbeatsOf(events) == SeqFilter(events, {e \in Range(events) : e.kind = "heartbeat"})

\* C30: every heartbeat a polling cycle builds is for a path of runningNow
\* and has entityType "app", that path as entity, the name of the enrolled
\* program with that path as project, and isWrite false
C30_HeartbeatFields ==
  \A e \in Range(HeartbeatsOf(lastCycle.events)) :
    /\ e.path \in Range(lastCycle.running)
    /\ e.data.entityType = "app"
    /\ e.data.entity = e.path
    /\ IsProgramEnrolled(programs, e.path)
    /\ e.data.project = GetProgramByPath(programs, e.path)[1].name
    /\ e.data.isWrite = FALSE

\* a cycle found both enrolled programs running and built a heartbeat for
\* each
C30_Witness ==
  /\ lastCycle.kind = "done"
  /\ Len(HeartbeatsOf(lastCycle.events)) = 2
  /\ HeartbeatsOf(lastCycle.events)[1].data.project = Basename(PathA)
  /\ HeartbeatsOf(lastCycle.events)[2].data.project = Basename(PathB)

\* ----------------------------------------------------------------- C31
\* the dispatch attempts of a cycle for path p: heartbeats handed over and
\* throws that were logged
AttemptsOf(events, p) ==
  Cardinality({j \in 1..Len(events) :
                 events[j].path = p /\ events[j].kind \in {"heartbeat", "heartbeat failed"}})

\* C31: a cycle in which the dispatch for a path throws logs it and makes no
\* second attempt for that path; it still updates lastSeen for that path and
\* for every other running path, attempts the dispatch of every other running
\* enrolled path once, and replaces the reported set by what it found running
C31_FailureNotRetried ==
  (lastCycle.kind = "done"
     /\ \E j \in 1..Len(lastCycle.events) : lastCycle.events[j].kind = "heartbeat failed")
  => /\ \A p \in Range(lastCycle.running) :
           /\ AttemptsOf(lastCycle.events, p)
                = (IF IsProgramEnrolled(programs, p)
                   THEN Occurrences(lastCycle.running, p) ELSE 0)
           /\ Cardinality({j \in 1..Len(lastCycle.events) :
                             lastCycle.events[j] = Event("touch", p)})
                = Occurrences(lastCycle.running, p)
     /\ \A j \in 1..Len(lastCycle.events) :
           lastCycle.events[j].kind = "heartbeat failed"
           => /\ j < Len(lastCycle.events)
              /\ lastCycle.events[j + 1] = Event("touch", lastCycle.events[j].path)
     /\ lastReportedPrograms = Dedup(lastCycle.running)

\* a cycle whose first dispatch threw and that went on to another running path
C31_Witness ==
  /\ lastCycle.kind = "done"
  /\ Len(lastCycle.running) = 2
  /\ \E j \in 1..Len(lastCycle.events) :
        /\ lastCycle.events[j].kind = "heartbeat failed"
        /\ lastCycle.events[j].path = lastCycle.running[1]
  /\ \E j \in 1..Len(lastCycle.events) :
        /\ lastCycle.events[j].kind = "heartbeat"
        /\ lastCycle.events[j].path = lastCycle.running[2]
  /\ lastReportedPrograms = lastCycle.running

\* ----------------------------------------------------------------- C32
\* the first record with path p, which is the one getProgramByPath finds
FirstWithPath(progs, p) ==
  CHOOSE i \in 1..Len(progs) :
    progs[i].path = p /\ \A j \in 1..(i - 1) : progs[j].path # p

\* C32: touchLastSeen(path) stamps lastSeen = now on the record with that
\* path and leaves its id, name, path and enrolledAt, every other record and
\* the order of the list as they were, then rewrites the file, which holds
\* the new list when the write succeeds; when no record has the path, the
\* list and the file are unchanged and nothing is written
C32_TouchOnlyLastSeen ==
  [][ret'.op = "touch"
       => LET p == ret'.result[1]
          IN IF IsProgramEnrolled(programs, p)
             THEN LET i == FirstWithPath(programs, p)
                  IN /\ Len(programs') = Len(programs)
                     /\ \A j \in 1..Len(programs) : j # i => programs'[j] = programs[j]
                     /\ programs'[i].id = programs[i].id
                     /\ programs'[i].name = programs[i].name
                     /\ programs'[i].path = programs[i].path
                     /\ programs'[i].enrolledAt = programs[i].enrolledAt
                     /\ programs'[i].lastSeen = now
                     /\ ret'.saved # "none"
                     /\ ret'.saved = "ok" => file' = JsonFile(programs')
             ELSE /\ programs' = programs
                  /\ file' = file
                  /\ ret'.saved = "none"]_vars

\* a touch that stamped the second of two records and rewrote the file
C32_Witness ==
  /\ ret.op = "touch" /\ ret.saved = "ok"
  /\ Len(programs) = 2
  /\ programs[2].path = ret.result[1]
  /\ programs[1].path # ret.result[1]
  /\ programs[2].lastSeen = now
  /\ programs[2].lastSeen # programs[2].enrolledAt
  /\ file = JsonFile(programs)

\* ----------------------------------------------------------------- C33
\* C33 as stated: every path returned by getCurrentlyRunningPrograms() is
\* the path of a program that is enrolled now
C33_ReturnedAreEnrolled ==
  Range(GetCurrentlyRunningPrograms(lastReportedPrograms))
    \subseteq Range(GetEnrolledPaths(programs))

\* C33 amended: the paths returned by getCurrentlyRunningPrograms() are those
\* the last completed cycle found running, all of them enrolled when that
\* cycle read the registry; no enroll, remove, tick, skipped cycle or scan
\* step changes what is returned
C33_ReturnedWereEnrolled ==
  [][IF lastCycle'.kind = "done"
     THEN /\ Range(GetCurrentlyRunningPrograms(lastReportedPrograms'))
               = Range(lastCycle'.running)
          /\ Range(GetCurrentlyRunningPrograms(lastReportedPrograms'))
               \subseteq Range(lastCycle'.paths)
     ELSE GetCurrentlyRunningPrograms(lastReportedPrograms')
            = GetCurrentlyRunningPrograms(lastReportedPrograms)]_vars

\* a path is still returned after its program was removed and a cycle over
\* the empty registry was skipped
C33_Witness ==
  /\ lastCycle.kind = "skipped"
  /\ programs = <<>>
  /\ GetCurrentlyRunningPrograms(lastReportedPrograms) # <<>>

\* ----------------------------------------------------------------- C34
RECURSIVE Alternates(_, _)
\* the "entered" and "exited" lines of events carry on, for every path, an
\* alternation in which open holds the paths with an unmatched "entered"
Alternates(open, events) ==
  IF events = <<>> THEN TRUE
  ELSE IF events[1].kind = "entered"
       THEN /\ events[1].path \notin open
            /\ Alternates(open \cup {events[1].path}, Tail(events))
  ELSE IF events[1].kind = "exited"
       THEN /\ events[1].path \in open
            /\ Alternates(open \ {events[1].path}, Tail(events))
  ELSE Alternates(open, Tail(events))

\* C34 as stated: for each path the "entered" and "exited" lines the watcher
\* logs alternate, starting with "entered": a cycle logs "entered" only for a
\* path without an unmatched "entered" and "exited" only for a path with one
C34_Alternate ==
  [][(lastCycle'.kind = "done" /\ transitions.recorded)
       => Alternates(transitions.open, lastCycle'.events)]_vars

\* C34 amended: a cycle logs "entered" for a path only when the path joins
\* the reported set and "exited" only when it leaves it, and only for a path
\* that is enrolled when the cycle compares the two sets
C34_LoggedOnJoinAndLeave ==
  (lastCycle.kind = "done" /\ transitions.recorded)
  => \A j \in 1..Len(lastCycle.events) :
       LET e == lastCycle.events[j]
       IN /\ e.kind = "entered"
               => /\ e.path \notin Range(lastCycle.before)
                  /\ e.path \in Range(lastReportedPrograms)
                  /\ IsProgramEnrolled(programs, e.path)
          /\ e.kind = "exited"
               => /\ e.path \in Range(lastCycle.before)
                  /\ e.path \notin Range(lastReportedPrograms)
                  /\ IsProgramEnrolled(programs, e.path)

\* a cycle found a path running whose program had been removed, so that the
\* path joined the reported set without an "entered" line
C34_Witness ==
  /\ lastCycle.kind = "done" /\ transitions.recorded
  /\ lastCycle.before = <<>>
  /\ Len(lastReportedPrograms) = 2
  /\ Cardinality(transitions.open) = 1
  /\ \E j \in 1..Len(lastCycle.events) : lastCycle.events[j].kind = "entered"

\* ----------------------------------------------------------------- C35
\* C35: every heartbeat a cycle dispatches is built from a record that is in
\* the registry, with the heartbeat's path, when it is dispatched; for a
\* running path whose program was removed while the cycle awaited its scan
\* the cycle dispatches no heartbeat, and its updateLastSeen leaves the path
\* without a record
C35_HeartbeatOnlyIfEnrolled ==
  lastCycle.kind = "done"
  => /\ \A e \in Range(HeartbeatsOf(lastCycle.events)) :
          \E i \in 1..Len(programs) :
            /\ programs[i].path = e.path
            /\ programs[i].id = e.data.appData.id
     /\ \A p \in Range(lastCycle.running) :
          (\A e \in Range(HeartbeatsOf(lastCycle.events)) : e.path # p)
            <=> ~IsProgramEnrolled(programs, p)

\* a cycle found two paths running, one of which had been removed while the
\* cycle awaited its scan: a heartbeat for the other one only
C35_Witness ==
  /\ lastCycle.kind = "done"
  /\ Len(lastCycle.running) = 2
  /\ ~IsProgramEnrolled(programs, lastCycle.running[1])
  /\ IsProgramEnrolled(programs, lastCycle.running[2])
  /\ \A e \in Range(HeartbeatsOf(lastCycle.events)) : e.path = lastCycle.running[2]
  /\ Len(HeartbeatsOf(lastCycle.events)) = 1
  /\ Event("touch", lastCycle.running[1]) \in Range(lastCycle.events)

\* ----------------------------------------------------------------- C36
\* every scan of path p so far, in the calls in flight and in the call that
\* finished last, has reported p running
FoundRunning(p) ==
  /\ \A c \in BagToSet(cycles) :
        \A j \in 1..(c.i - 1) : c.paths[j] = p => p \in Range(c.running)
  /\ (lastCycle.kind = "done" /\ p \in Range(lastCycle.paths))
        => p \in Range(lastCycle.running)

\* the watcher is started, p is enrolled and every scan reports p running
StaysRunning(p) ==
  /\ intervalId # 0
  /\ IsProgramEnrolled(programs, p)
  /\ FoundRunning(p)

\* a cycle has just dispatched a heartbeat for p
HeartbeatDispatched(p) ==
  /\ lastCycle.kind = "done"
  /\ \E e \in Range(HeartbeatsOf(lastCycle.events)) : e.path = p

\* C36: from the moment on which the watcher stays started and a program p,
\* enrolled before or after start(), stays enrolled and is reported running
\* by every scan, heartbeats for p are dispatched infinitely often, given
\* that the armed timer keeps firing and the awaited listings come back
C36_HeartbeatsForever ==
  \A p \in Paths : <>[]StaysRunning(p) => []<>HeartbeatDispatched(p)

\* a heartbeat for a program that was enrolled after start(): a call begun
\* before its enrollment is still awaiting its scan
C36_Witness ==
  /\ HeartbeatDispatched(PathA)
  /\ StaysRunning(PathA)
  /\ lastCycle.paths = <<PathB, PathA>>
  /\ \E c \in BagToSet(cycles) : c.paths = <<PathB>>

\* ----------------------------------------------------------------- C37
\* C37: globalKeyListener is attached to the key hook at most once, and it
\* is attached exactly when isWatchingForKeyboardEvents is true
C37_AttachedOnceIffWatching ==
  /\ listeners <= 1
  /\ (listeners = 1) <=> isWatchingForKeyboardEvents

\* ----------------------------------------------------------------- C38
\* C38: at most one window-focus subscription is active at any time, and
\* none is active once stop() has returned
C38_OneSubscription ==
  /\ Cardinality(subscriptions) <= 1
  /\ ret.op = "Watcher.stop" => subscriptions = {}

\* ----------------------------------------------------------------- C39
\* C39: once start() has subscribed, all earlier subscriptions having been
\* ended by stop(), a focus-change event for a window with a processId
\* whose executable path is enrolled leaves keyboard watching on
C39_WatchingAfterRestart ==
  [][\A sub \in subscriptions, windowInfo \in Windows :
       (/\ ret.op = "Watcher.start" /\ ret.result = <<>>
        /\ subscriptions = {activeWindowSubscription}
        /\ ret'.op = "windowChanged"
        /\ windowInfo.processId # 0
        /\ windowInfo.path # <<>>
        /\ IsMonitored(programs, windowInfo.path)
        /\ WindowChanged(sub, windowInfo))
       => isWatchingForKeyboardEvents']_vars

====
